---- MODULE Spec2Model ----
(***************************************************************************)
(* A model of rstblog's build pass: Builder.run, Builder.iter_contexts,    *)
(* Context and the build programs (src/rstblog/builder.py,                 *)
(* src/rstblog/programs.py) with the blog and tags modules subscribed to   *)
(* the lifecycle signals (src/rstblog/modules/blog.py, tags.py).           *)
(*                                                                         *)
(* Strings whose content the code inspects (paths, glob patterns) are      *)
(* sequences of one-character strings, so that os.path.split, splitext,    *)
(* join and fnmatch are computed character by character.                   *)
(***************************************************************************)
EXTENDS Integers, Sequences, FiniteSets, TLC

(***************************************************************************)
(* Bounds of the model.                                                    *)
(***************************************************************************)
\* The clock that stamps modification times runs from 0 to MaxTime.
MaxTime == 2
\* Builder.run is started at most MaxPasses times on the same Builder.
MaxPasses == 2
\* The longest ignore_files list a configuration gives
MaxPatterns == 2
\* How many times prepare() is called on one context
MaxPrepareCalls == 2
\* How many contexts are published in the pass the modules are followed through
MaxPublished == 3

(***************************************************************************)
(* Character strings.                                                      *)
(***************************************************************************)
SLASH == "/"
DOT == "."

\* str.startswith / str.endswith
StartsWith(s, p) == Len(s) >= Len(p) /\ SubSeq(s, 1, Len(p)) = p
EndsWith(s, p) == Len(s) >= Len(p) /\ SubSeq(s, Len(s) - Len(p) + 1, Len(s)) = p

\* str.rfind(c) + 1: the 1-based index of the last c in s, 0 when there is none
RFind(s, c) ==
    LET hits == {i \in 1..Len(s) : s[i] = c}
    IN IF hits = {} THEN 0 ELSE CHOOSE i \in hits : \A j \in hits : j <= i

\* str.lstrip(c) / str.rstrip(c)
LStrip(s, c) ==
    LET keep == {i \in 1..Len(s) : s[i] # c}
    IN IF keep = {} THEN <<>>
       ELSE SubSeq(s, CHOOSE i \in keep : \A j \in keep : i <= j, Len(s))
RStrip(s, c) ==
    LET keep == {i \in 1..Len(s) : s[i] # c}
    IN IF keep = {} THEN <<>>
       ELSE SubSeq(s, 1, CHOOSE i \in keep : \A j \in keep : j <= i)

\* posixpath.split: (head, tail) around the last slash, the head without its
\* trailing slashes unless it is made of slashes only
PathSplit(p) ==
    LET i == RFind(p, SLASH)
        head == SubSeq(p, 1, i)
        tail == SubSeq(p, i + 1, Len(p))
    IN IF head # <<>> /\ RStrip(head, SLASH) # <<>>
       THEN <<RStrip(head, SLASH), tail>>
       ELSE <<head, tail>>

\* posixpath.splitext: (root, ext) around the last dot of the last component,
\* leading dots of the component not counting as an extension
PathSplitext(p) ==
    LET sepIndex == RFind(p, SLASH)
        dotIndex == RFind(p, DOT)
    IN IF dotIndex > sepIndex
          /\ \E k \in (sepIndex + 1)..(dotIndex - 1) : p[k] # DOT
       THEN <<SubSeq(p, 1, dotIndex - 1), SubSeq(p, dotIndex, Len(p))>>
       ELSE <<p, <<>>>>

\* posixpath.join of two components
PathJoin(a, b) ==
    IF StartsWith(b, <<SLASH>>) THEN b
    ELSE IF a = <<>> \/ EndsWith(a, <<SLASH>>) THEN a \o b
    ELSE a \o <<SLASH>> \o b

\* fnmatch.fnmatch for patterns made of literal characters and "*"
RECURSIVE Fnmatch(_, _)
Fnmatch(name, pat) ==
    IF pat = <<>> THEN name = <<>>
    ELSE IF Head(pat) = "*"
         THEN \/ Fnmatch(name, Tail(pat))
              \/ name # <<>> /\ Fnmatch(Tail(name), pat)
    ELSE name # <<>> /\ Head(name) = Head(pat) /\ Fnmatch(Tail(name), Tail(pat))

(***************************************************************************)
(* String literals of the code.                                            *)
(***************************************************************************)
INDEX == <<"i","n","d","e","x">>
INDEX_HTML == <<"i","n","d","e","x",".","h","t","m","l">>
YML_EXT == <<".","y","m","l">>
SCSS == <<"s","c","s","s">>
CSS == <<"c","s","s">>
OUTPUT_FOLDER == <<"_","b","u","i","l","d">>

(***************************************************************************)
(* Programs (programs.py) and program dispatch (Builder.guess_program).    *)
(***************************************************************************)
PROGRAM_CLASS_FOR_NAME == {"html", "copy", "md", "scss"}

\* Builder.default_programs, in the iteration order of the dict literal
default_programs ==
    << <<(<<"*",".","h","t","m","l">>), "html">>,
       <<(<<"*",".","m","d">>), "md">>,
       <<(<<"*",".","s","c","s","s">>), "scss">> >>

\* Builder.default_ignores
default_ignores ==
    << <<".","*">>, <<"_","*">>, <<"*",".","y","m","l">>,
       <<"M","a","k","e","f","i","l","e">>, <<"R","E","A","D","M","E">>,
       <<"*",".","c","o","n","f">> >>

\* guess_program as it would be if the last matching pattern decided
guess_program_last(mapping, filename) ==
    LET hits == {i \in 1..Len(mapping) : Fnmatch(filename, mapping[i][1])}
    IN IF hits = {} THEN "copy"
       ELSE mapping[CHOOSE i \in hits : \A j \in hits : j <= i][2]

\* Builder.guess_program: the program of the first matching pattern, else copy
RECURSIVE guess_program(_, _)
guess_program(mapping, filename) ==
    IF mapping = <<>> THEN "copy"
    ELSE IF Fnmatch(filename, Head(mapping)[1]) THEN Head(mapping)[2]
    ELSE guess_program(Tail(mapping), filename)

\* str.replace(old, new): every non-overlapping occurrence, left to right
RECURSIVE StrReplace(_, _, _)
StrReplace(s, old, new) ==
    IF s = <<>> THEN <<>>
    ELSE IF StartsWith(s, old)
         THEN new \o StrReplace(SubSeq(s, Len(old) + 1, Len(s)), old, new)
    ELSE <<Head(s)>> \o StrReplace(Tail(s), old, new)

\* get_desired_filename as it would be without the case of index
Program_get_desired_filename_no_index(source_filename) ==
    LET folder == PathSplit(source_filename)[1]
        basename == PathSplit(source_filename)[2]
        simple_name == PathSplitext(basename)[1]
    IN PathJoin(folder, PathJoin(simple_name, INDEX_HTML))

\* Program.get_desired_filename (HTMLProgram and MarkdownProgram inherit it)
Program_get_desired_filename(source_filename) ==
    LET folder == PathSplit(source_filename)[1]
        basename == PathSplit(source_filename)[2]
        simple_name == PathSplitext(basename)[1]
        suffix == IF simple_name = INDEX THEN INDEX_HTML
                  ELSE PathJoin(simple_name, INDEX_HTML)
    IN PathJoin(folder, suffix)

\* CopyProgram.get_desired_filename
CopyProgram_get_desired_filename(source_filename) == source_filename

\* SCSSProgram.get_desired_filename
SCSSProgram_get_desired_filename(source_filename) ==
    StrReplace(source_filename, SCSS, CSS)

\* self.program.get_desired_filename() for the program class of program_name
get_desired_filename(program_name, source_filename) ==
    CASE program_name = "copy" -> CopyProgram_get_desired_filename(source_filename)
      [] program_name = "scss" -> SCSSProgram_get_desired_filename(source_filename)
      [] OTHER -> Program_get_desired_filename(source_filename)

\* Context.__init__: destination_filename under the builder's prefix path
destination_filename_for(prefix_path, program_name, source_filename) ==
    PathJoin(LStrip(prefix_path, SLASH),
             get_desired_filename(program_name, source_filename))

(***************************************************************************)
(* The project: its source tree, front-matter headers and configuration.   *)
(***************************************************************************)
\* The source files of the project, named by their path under the project folder
Files == {"posts/hello.md", "a.md", "b.md", "posts/css/main.scss"}

\* What a pass has written to the output folder and a walk that did not
\* ignore that folder would take for a source file
OutputFiles == {"_build/b.html"}

\* The characters of a source_filename
Chars(f) ==
    CASE f = "posts/hello.md" -> <<"p","o","s","t","s","/","h","e","l","l","o",".","m","d">>
      [] f = "a.md" -> <<"a",".","m","d">>
      [] f = "b.md" -> <<"b",".","m","d">>
      [] f = "posts/css/main.scss" ->
            <<"p","o","s","t","s","/","c","s","s","/","m","a","i","n",".","s","c","s","s">>
      [] f = "_build/b.html" -> <<"_","b","u","i","l","d","/","b",".","h","t","m","l">>
      [] f = "2020/1/2/p.md" -> <<"2","0","2","0","/","1","/","2","/","p",".","m","d">>
      [] f = "2020/1/2/p.png" -> <<"2","0","2","0","/","1","/","2","/","p",".","p","n","g">>
      [] f = "2020/13/1/q.md" -> <<"2","0","2","0","/","1","3","/","1","/","q",".","m","d">>
      [] f = "2021/3/4/index.md" ->
            <<"2","0","2","1","/","3","/","4","/","i","n","d","e","x",".","m","d">>
      [] f = "notes/n.md" -> <<"n","o","t","e","s","/","n",".","m","d">>
      [] f = "notes/m.md" -> <<"n","o","t","e","s","/","m",".","m","d">>
      [] f = "2019/7/8/r.md" -> <<"2","0","1","9","/","7","/","8","/","r",".","m","d">>

FileId(chars) == CHOOSE f \in Files \cup OutputFiles : Chars(f) = chars

POSTS == <<"p","o","s","t","s">>
B_HTML == <<"b",".","h","t","m","l">>
A_YML == <<"a",".","y","m","l">>
project_folder == <<"/","p">>

\* The source files that may get a sidecar metadata file (a.md has a.yml)
WithSidecar == {"a.md"}

\* The source file the author edits between two passes; a.md goes stale
\* through its sidecar, b.md through its source
Edited == {"b.md"}

\* The front-matter header of a markup source, as load_header returns it
Header(f) ==
    CASE f = "posts/hello.md" -> ("title" :> "Hello") @@ ("public" :> FALSE)
      [] f = "a.md" -> ("title" :> "A") @@ ("pub_date" :> 2020)
                       @@ ("tags" :> <<"python">>)
      [] f = "b.md" -> ("title" :> "B") @@ ("pub_date" :> 2021)
                       @@ ("destination_filename" :> B_HTML)
      [] f = "notes/n.md" -> ("pub_date" :> 2021) @@ ("tags" :> <<"python">>)
      [] f = "notes/m.md" -> ("pub_date" :> 2020) @@ ("tags" :> <<"web">>)
      [] f = "2019/7/8/r.md" -> ("pub_date" :> 2021) @@ ("tags" :> <<"python", "web">>)
      [] OTHER -> <<>>

\* dict.get(key, default)
DictGet(d, key, default) == IF key \in DOMAIN d THEN d[key] ELSE default

(***************************************************************************)
(* Config. A configuration node is the chain of the mappings that it and   *)
(* its ancestors declare, the root's first and its own last.               *)
(***************************************************************************)
\* The configuration of the project root (no config.yml sets any key the pass reads)
RootConfig == << <<>> >>

\* The levels of the chain that set key
ConfigLevels(config, key) == {i \in 1..Len(config) : key \in DOMAIN config[i]}

\* Config.get(key, default): the nearest node that sets the key wins
ConfigGet(config, key, default) ==
    LET levels == ConfigLevels(config, key)
    IN IF levels = {} THEN default
       ELSE config[CHOOSE i \in levels : \A j \in levels : j <= i][key]

\* Config.root_get(key, default): the top-most node only
ConfigRootGet(config, key, default) == DictGet(config[1], key, default)

\* Config.add_from_dict(d): a derived node whose parent is the receiver
ConfigAddFromDict(config, d) == Append(config, d)

\* Config.add_from_file(fd): a derived node holding the mapping read from fd
ConfigAddFromFile(config, d) == ConfigAddFromDict(config, d)

\* The config.yml files of the project: posts/ declares its files public,
\* posts/css/ declares its files not public, notes/ (a directory of the
\* sample blog, not of the walked project) tags its files python
CONFIG_YML == <<"c","o","n","f","i","g",".","y","m","l">>
NOTES == <<"n","o","t","e","s">>
ConfigYml(dirpath) ==
    CASE dirpath = POSTS -> "public" :> TRUE
      [] dirpath = PathJoin(POSTS, CSS) -> "public" :> FALSE
      [] dirpath = NOTES -> "tags" :> <<"python">>
      [] OTHER -> <<>>
HasConfigYml(dirpath) == dirpath \in {POSTS, PathJoin(POSTS, CSS), NOTES}

\* iter_contexts._walk: the local_config with which dirpath is walked, the
\* parent directory's with the directory's own config.yml on top if it has one
RECURSIVE local_config(_)
local_config(dirpath) ==
    IF dirpath = <<>> THEN RootConfig
    ELSE LET parent == local_config(PathSplit(dirpath)[1])
         IN IF HasConfigYml(dirpath)
            THEN ConfigAddFromFile(parent, ConfigYml(dirpath))
            ELSE parent

\* The receiver of add_from_dict as it would be if the call added the
\* mapping to the receiver itself
ConfigAddFromDict_receiver_in_place(config, d) == Append(config, d)

\* The receiver of add_from_dict afterwards: the node is left as it was
ConfigAddFromDict_receiver(config, d) == config

\* Config.merged_get(key): the sequences the node and its ancestors give for
\* key, concatenated, the node's own first; and whether it is None, which it
\* is when none of them sets the key
RECURSIVE ConfigMergedGet(_, _)
ConfigMergedGet(config, key) ==
    IF config = <<>> THEN <<>>
    ELSE DictGet(config[Len(config)], key, <<>>)
         \o ConfigMergedGet(SubSeq(config, 1, Len(config) - 1), key)
ConfigMergedGetIsNone(config, key) == ConfigLevels(config, key) = {}

\* Config.list_entries(key): the entries the configuration declares under
\* key, in the order it declares them; none when it declares none
ConfigListEntries(config, key) == ConfigGet(config, key, <<>>)

\* Builder.guess_program: config.list_entries("programs") or default_programs
programs_mapping(config) ==
    IF ConfigListEntries(config, "programs") # <<>>
    THEN ConfigListEntries(config, "programs")
    ELSE default_programs

\* The path component of canonical_url (Builder.__init__: prefix_path)
prefix_path == <<>>

(***************************************************************************)
(* State.                                                                  *)
(***************************************************************************)
VARIABLES
    now,        \* the clock that stamps modification times
    srcTime,    \* source file -> mtime
    meta,       \* source file -> its sidecar metadata file: [exists, mtime]
    dst,        \* full destination filename -> [exists, mtime]
    pc,         \* the position of Builder.run
    pass,       \* how many times Builder.run has been started
    todo,       \* what the iter_contexts generator has still to yield
    cur,        \* the Context of the current loop iteration
    key,        \* the local variable key of Builder.run
    storage,    \* Builder.storage: module -> its dict
    trace,      \* history of the current pass: every operation, in order
    stdout,     \* the lines printed by the current pass
    order,      \* history: the walk order of the current pass
    unchanged,  \* history: the last pass succeeded and no source changed since
    passClean,  \* history: the value of unchanged when the pass started
    nm,         \* one Context under construction, for the filename derivation
    flt,        \* one call of Builder.filter_files, for the ignore patterns
    pp,         \* one markup source and the contexts of its directory, for prepare()
    rt,         \* one builder's url map and one call of link_to
    mods        \* one pass as the blog and tags modules see it

passVars == <<pc, pass, todo, cur, key, storage, trace, stdout, order, passClean>>
fsVars == <<now, srcTime, meta, dst>>
buildVars == <<now, srcTime, meta, dst, pc, pass, todo, cur, key, storage, trace,
               stdout, order, unchanged, passClean>>
vars == <<now, srcTime, meta, dst, pc, pass, todo, cur, key, storage, trace,
          stdout, order, unchanged, passClean, nm, flt, pp, rt, mods>>
\* The variables no step of a pass touches
pureVars == <<nm, flt, pp, rt, mods>>

Absent == [exists |-> FALSE, mtime |-> 0]
NoContext ==
    [source_filename |-> "", pass |-> 0, program_name |-> "",
     destination_filename |-> <<>>, config |-> <<>>, pub_date |-> <<>>]

\* The reference kept by whoever holds a Context object
Ref(ctx) == [source_filename |-> ctx.source_filename, pass |-> ctx.pass]

(***************************************************************************)
(* Context (builder.py).                                                   *)
(***************************************************************************)
\* Context.full_destination_filename
full_destination_filename(ctx) ==
    LET output_folder == ConfigGet(ctx.config, "output_folder", <<>>)
    IN PathJoin(PathJoin(project_folder,
                         IF output_folder # <<>> THEN output_folder
                         ELSE OUTPUT_FOLDER),
                ctx.destination_filename)

\* Context.full_source_metadata_filename is the sidecar of the source: the
\* source path with its extension replaced by .yml
full_source_metadata_filename(ctx) ==
    PathJoin(project_folder,
             PathSplitext(Chars(ctx.source_filename))[1] \o YML_EXT)

\* The sidecar that the file system holds under that name
SidecarAt(path) ==
    IF \E f \in WithSidecar :
          path = PathJoin(project_folder, PathSplitext(Chars(f))[1] \o YML_EXT)
    THEN meta[CHOOSE f \in WithSidecar :
                path = PathJoin(project_folder, PathSplitext(Chars(f))[1] \o YML_EXT)]
    ELSE Absent

\* What the file system holds under a destination name
DstAt(path) == IF path \in DOMAIN dst THEN dst[path] ELSE Absent

\* Context.is_new
is_new(ctx) == ~DstAt(full_destination_filename(ctx)).exists

\* A public property that asks the root configuration only
public_root_get(ctx) == ConfigRootGet(ctx.config, "public", TRUE)

\* Context.public
public(ctx) == ConfigGet(ctx.config, "public", TRUE)

\* Context.is_text
is_text(ctx) ==
    PathSplitext(Chars(ctx.source_filename))[2]
        \in {<<".","r","s","t">>, <<".","h","t","m","l">>, <<".","m","d">>}

\* needs_build as it would be without the sidecar comparison
needs_build_no_sidecar(ctx) ==
    IF is_new(ctx) THEN TRUE
    ELSE DstAt(full_destination_filename(ctx)).mtime < srcTime[ctx.source_filename]

\* needs_build as it would be with <= in place of <
needs_build_le(ctx) ==
    IF is_new(ctx) THEN TRUE
    ELSE LET dst_time == DstAt(full_destination_filename(ctx)).mtime
             metadata == SidecarAt(full_source_metadata_filename(ctx))
         IN IF metadata.exists /\ dst_time <= metadata.mtime THEN TRUE
            ELSE dst_time <= srcTime[ctx.source_filename]

\* Context.needs_build, with the early returns of the code
needs_build(ctx) ==
    IF is_new(ctx) THEN TRUE
    ELSE LET dst_time == DstAt(full_destination_filename(ctx)).mtime
             metadata == SidecarAt(full_source_metadata_filename(ctx))
         IN IF metadata.exists /\ dst_time < metadata.mtime THEN TRUE
            ELSE dst_time < srcTime[ctx.source_filename]

\* Context.__init__ up to the prepare flag
NewContext(f, n) ==
    LET config == local_config(PathSplit(Chars(f))[1])
        program_name ==
            IF ConfigGet(config, "program", <<>>) # <<>>
            THEN ConfigGet(config, "program", <<>>)
            ELSE guess_program(programs_mapping(config), Chars(f))
    IN [source_filename |-> f, pass |-> n, program_name |-> program_name,
        destination_filename |->
            destination_filename_for(prefix_path, program_name, Chars(f)),
        config |-> config, pub_date |-> <<>>]

\* process_header as it would be if it left destination_filename alone
process_header_keeps_destination(ctx, cfg) ==
    [ctx EXCEPT
       !.config = ConfigAddFromDict(ctx.config, cfg),
       !.pub_date = IF "pub_date" \in DOMAIN cfg
                    THEN <<cfg["pub_date"]>> ELSE ctx.pub_date]

\* TemplatedProgram.process_header: config, destination_filename and pub_date
\* of the context afterwards
process_header(ctx, cfg) ==
    [ctx EXCEPT
       !.config = ConfigAddFromDict(ctx.config, cfg),
       !.destination_filename =
           DictGet(cfg, "destination_filename", ctx.destination_filename),
       !.pub_date = IF "pub_date" \in DOMAIN cfg
                    THEN <<cfg["pub_date"]>> ELSE ctx.pub_date]

\* HTMLProgram.prepare and MarkdownProgram.prepare on the sources of the
\* project, which all have a header; Program.prepare does nothing
Prepared(ctx) ==
    IF ctx.program_name \in {"html", "md"}
    THEN process_header(ctx, Header(ctx.source_filename))
    ELSE ctx

\* Every full destination filename a context of the project can have
DestPaths ==
    {full_destination_filename(NewContext(f, 0)) : f \in Files}
    \cup {full_destination_filename(Prepared(NewContext(f, 0))) : f \in Files}

(***************************************************************************)
(* Markup sources (programs.py): the lines of a file, load_header,         *)
(* load_body and prepare().                                                *)
(***************************************************************************)
\* The lines of a source file, right-stripped: the header limit ---, a blank
\* line, a line of YAML of the form key: value, a line of text
Limit == [kind |-> "limit"]
Blank == [kind |-> "blank"]
Text(t) == [kind |-> "text", text |-> t]
KV(k, v) == [kind |-> "kv", key |-> k, value |-> v]

\* The value None and a string value
NoneValue == [kind |-> "None"]
Str(v) == [kind |-> "str", value |-> v]
\* dict.get(key) where the caller goes on to test the result against None
DictGetOrNone(d, k) == IF k \in DOMAIN d THEN Str(d[k]) ELSE NoneValue

\* f.readline().rstrip(): the empty string at the end of the file
Readline(lines, pos) == IF pos <= Len(lines) THEN lines[pos] ELSE Blank

\* TemplatedProgram.load_header, its loop: the header lines read and the
\* position the file is left at
RECURSIVE load_header_lines(_, _, _)
load_header_lines(lines, pos, headers) ==
    LET line == Readline(lines, pos)
    IN IF headers = <<>> /\ line = Limit
       THEN load_header_lines(lines, pos + 1, headers)
       ELSE IF line = Blank \/ line = Limit
            THEN [headers |-> headers, pos |-> pos + 1]
       ELSE load_header_lines(lines, pos + 1, Append(headers, line))

\* yaml.load of the header lines: None for no line, a dict for key: value
\* lines, a string for lines of text, a parse error for a mix of the two
yaml_load(headers) ==
    LET n == Len(headers)
        keys == {headers[i].key : i \in {j \in 1..n : headers[j].kind = "kv"}}
        LastOf(k) == CHOOSE i \in 1..n :
                        /\ headers[i].kind = "kv" /\ headers[i].key = k
                        /\ \A j \in (i + 1)..n :
                              ~(headers[j].kind = "kv" /\ headers[j].key = k)
    IN IF n = 0 THEN NoneValue
       ELSE IF \A i \in 1..n : headers[i].kind = "kv"
            THEN [kind |-> "dict", dict |-> [k \in keys |-> headers[LastOf(k)].value]]
       ELSE IF \A i \in 1..n : headers[i].kind = "text"
            THEN [kind |-> "str"]
       ELSE [kind |-> "error"]

\* load_header as it would be if it left the file at the line that ends the
\* header
load_header_at_terminator(lines) ==
    LET read == load_header_lines(lines, 1, <<>>)
        cfg == yaml_load(read.headers)
    IN [raised |-> cfg.kind \in {"str", "error"}, cfg |-> cfg, pos |-> read.pos - 1]

\* TemplatedProgram.load_header: cfg, which is None or a dict, and the position
\* the file is left at; raised when yaml.load fails or cfg is no dict
load_header(lines) ==
    LET read == load_header_lines(lines, 1, <<>>)
        cfg == yaml_load(read.headers)
    IN [raised |-> cfg.kind \in {"str", "error"}, cfg |-> cfg, pos |-> read.pos]

\* TemplatedProgram.load_body: the rest of the file; cfg.get raises when cfg
\* is None
load_body(lines, pos, cfg) ==
    [raised |-> cfg.kind = "None", body |-> SubSeq(lines, pos, Len(lines))]

\* A Context and the attributes prepare() sets on it; html is not set and
\* summary is None until then
NoHtml == [kind |-> "unset"]
NewPage(ctx) ==
    [ctx |-> ctx, html |-> NoHtml, title |-> Str("Untitled"), summary |-> NoneValue]

\* TemplatedProgram.process_header on a page: the context's summary as well
process_header_page(page, cfg) ==
    [page EXCEPT !.ctx = process_header(page.ctx, cfg),
                 !.summary = DictGetOrNone(cfg, "summary")]

\* HTMLProgram.prepare: whether it raised and the page afterwards. A cfg that
\* load_body accepts is a dict with an entry, so the branch of line 162 is taken
HTMLProgram_prepare(page, lines) ==
    LET header == load_header(lines)
        body == load_body(lines, header.pos, header.cfg)
    IN IF header.raised \/ body.raised THEN [raised |-> TRUE, page |-> page]
       ELSE LET cfg == header.cfg.dict
                p1 == [page EXCEPT !.html = [kind |-> "html", body |-> body.body]]
                p2 == process_header_page(p1, cfg)
                title == DictGetOrNone(cfg, "title")
            IN [raised |-> FALSE,
                page |-> IF title # NoneValue THEN [p2 EXCEPT !.title = title] ELSE p2]

\* MarkdownProgram.prepare: whether it raised and the page afterwards; the
\* summary falls back on the rendered html when that is not empty
MarkdownProgram_prepare(page, lines) ==
    LET header == load_header(lines)
        body == load_body(lines, header.pos, header.cfg)
    IN IF header.raised \/ body.raised THEN [raised |-> TRUE, page |-> page]
       ELSE LET cfg == header.cfg.dict
                html == [kind |-> "markdown", body |-> body.body]
                p1 == [page EXCEPT !.html = html]
                p2 == process_header_page(p1, cfg)
                p3 == [p2 EXCEPT !.title = DictGetOrNone(cfg, "title")]
            IN [raised |-> FALSE,
                page |-> IF p3.summary = NoneValue /\ body.body # <<>>
                         THEN [p3 EXCEPT !.summary = [kind |-> "Markup", html |-> html]]
                         ELSE p3]

\* self.program.prepare() for the program class of the context
program_prepare(page, lines) ==
    CASE page.ctx.program_name = "html" -> HTMLProgram_prepare(page, lines)
      [] page.ctx.program_name = "md" -> MarkdownProgram_prepare(page, lines)
      [] OTHER -> [raised |-> FALSE, page |-> page]

(***************************************************************************)
(* URL routes (Builder.register_url, Builder.link_to). The url map and its *)
(* adapter are werkzeug's: a rule is a pattern of literal text and         *)
(* <converter:name> placeholders, and building a URL for an endpoint fills *)
(* the placeholders of the endpoint's first rule whose placeholders all    *)
(* have a value.                                                           *)
(***************************************************************************)
\* Rule(rule): the pattern taken apart into literal text and placeholders
RECURSIVE ParseRule(_)
ParseRule(s) ==
    LET opens == {i \in 1..Len(s) : s[i] = "<"}
        open == CHOOSE i \in opens : \A j \in opens : i <= j
        closes == {i \in 1..Len(s) : s[i] = ">"}
        close == CHOOSE i \in closes : \A j \in closes : i <= j
        inner == SubSeq(s, 2, close - 1)
        colon == RFind(inner, ":")
    IN IF s = <<>> THEN <<>>
       ELSE IF opens = {} THEN <<[kind |-> "static", text |-> s]>>
       ELSE IF open > 1
            THEN <<[kind |-> "static", text |-> SubSeq(s, 1, open - 1)]>>
                 \o ParseRule(SubSeq(s, open, Len(s)))
       ELSE <<[kind |-> "argument", name |-> SubSeq(inner, colon + 1, Len(inner)),
               converter |-> IF colon = 0 THEN <<"d","e","f","a","u","l","t">>
                             ELSE SubSeq(inner, 1, colon - 1)]>>
            \o ParseRule(SubSeq(s, close + 1, Len(s)))

\* Rule.arguments: the names of the placeholders
rule_arguments(parts) ==
    {parts[i].name : i \in {j \in 1..Len(parts) : parts[j].kind = "argument"}}

\* url_quote of a value: a character that is not safe in a URL is escaped
RECURSIVE url_quote(_)
url_quote(s) ==
    IF s = <<>> THEN <<>>
    ELSE (CASE Head(s) = "+" -> <<"%","2","B">>
            [] Head(s) = " " -> <<"%","2","0">>
            [] OTHER -> <<Head(s)>>) \o url_quote(Tail(s))

\* Rule.build: the path, the placeholders filled with the quoted values, and
\* the values no placeholder takes as a query string
RECURSIVE rule_build_path(_, _)
rule_build_path(parts, values) ==
    IF parts = <<>> THEN <<>>
    ELSE (IF Head(parts).kind = "static" THEN Head(parts).text
          ELSE url_quote(values[Head(parts).name]))
         \o rule_build_path(Tail(parts), values)
rule_build(parts, values) ==
    LET unknown == DOMAIN values \ rule_arguments(parts)
        k == CHOOSE k \in unknown : TRUE
    IN rule_build_path(parts, values)
       \o (IF unknown = {} THEN <<>>
           ELSE <<"?">> \o k \o <<"=">> \o url_quote(values[k]))

\* The decimal digits and int() of a string of them
DigitValue(c) ==
    CASE c = "0" -> 0 [] c = "1" -> 1 [] c = "2" -> 2 [] c = "3" -> 3 [] c = "4" -> 4
      [] c = "5" -> 5 [] c = "6" -> 6 [] c = "7" -> 7 [] c = "8" -> 8 [] c = "9" -> 9
IsDigit(c) == c \in {"0","1","2","3","4","5","6","7","8","9"}
RECURSIVE ToInt(_)
ToInt(s) == IF s = <<>> THEN 0 ELSE 10 * ToInt(SubSeq(s, 1, Len(s) - 1)) + DigitValue(s[Len(s)])

\* The text a converter accepts: int takes digits, path takes anything that
\* does not begin with a slash, the default converter takes anything without a slash
converter_accepts(converter, text) ==
    /\ text # <<>>
    /\ CASE converter = <<"i","n","t">> -> \A i \in 1..Len(text) : IsDigit(text[i])
         [] converter = <<"p","a","t","h">> -> text[1] # SLASH
         [] OTHER -> \A i \in 1..Len(text) : text[i] # SLASH

\* Rule.match: every way the whole path matches the parts, as the values of
\* the placeholders (int values converted); empty when the path does not match
RECURSIVE rule_match(_, _)
rule_match(parts, path) ==
    IF parts = <<>> THEN (IF path = <<>> THEN {<<>>} ELSE {})
    ELSE LET part == Head(parts)
         IN IF part.kind = "static"
            THEN IF StartsWith(path, part.text)
                 THEN rule_match(Tail(parts), SubSeq(path, Len(part.text) + 1, Len(path)))
                 ELSE {}
            ELSE UNION {
                   LET text == SubSeq(path, 1, n)
                       value == IF part.converter = <<"i","n","t">>
                                THEN ToInt(text) ELSE text
                   IN IF converter_accepts(part.converter, text)
                      THEN {(part.name :> value) @@ rest :
                               rest \in rule_match(Tail(parts),
                                                   SubSeq(path, n + 1, Len(path)))}
                      ELSE {}
                   : n \in 1..Len(path)}

\* Rule.suitable_for as it would be if a rule were suitable whatever values
\* are given, a missing value filled in as the empty string
rule_suitable_always(parts, values) == TRUE

\* Rule.suitable_for: every placeholder has a value
rule_suitable_for(parts, values) == rule_arguments(parts) \subseteq DOMAIN values

\* Builder.register_url: the url map afterwards; the rule comes from the
\* root configuration when config_key is given
register_url(url_map, config, endpoint, rule, config_key, config_default) ==
    Append(url_map,
           [endpoint |-> endpoint,
            parts |-> ParseRule(IF config_key # ""
                                THEN ConfigRootGet(config, config_key, config_default)
                                ELSE rule)])

\* Builder.__init__: the url map holds the page rule
InitialUrlMap(config) ==
    register_url(<<>>, config, "page", <<"/","<","p","a","t","h",":","s","l","u","g",">">>,
                 "", <<>>)

\* tags.setup: the three rules of the tags module
tags_setup(url_map, config) ==
    LET m1 == register_url(url_map, config, "tag", <<>>, "modules.tags.tag_url",
                           <<"/","t","a","g","s","/","<","t","a","g",">","/">>)
        m2 == register_url(m1, config, "tagfeed", <<>>, "modules.tags.tag_feed_url",
                           <<"/","t","a","g","s","/","<","t","a","g",">","/","f","e","e","d",".","a","t","o","m">>)
    IN register_url(m2, config, "tags", <<>>, "modules.tags.tags_url",
                    <<"/","t","a","g","s","/">>)

\* Builder.link_to: url_adapter.build(_key, values), which raises BuildError
\* when the endpoint has no suitable rule; the adapter is bound to the
\* builder's prefix path
link_to(url_map, _key, values) ==
    LET suitable == {i \in 1..Len(url_map) :
                        /\ url_map[i].endpoint = _key
                        /\ rule_suitable_for(url_map[i].parts, values)}
        rule == url_map[CHOOSE i \in suitable : \A j \in suitable : i <= j]
        filled == [k \in rule_arguments(rule.parts) \cup DOMAIN values |->
                      IF k \in DOMAIN values THEN values[k] ELSE <<>>]
    IN IF suitable = {} THEN [raised |-> "BuildError", url |-> <<>>]
       ELSE [raised |-> "",
             url |-> RStrip(prefix_path, SLASH) \o <<SLASH>>
                     \o LStrip(rule_build(rule.parts, filled), SLASH)]

(***************************************************************************)
(* The tree walk (Builder.filter_files, Builder.iter_contexts).            *)
(***************************************************************************)
\* FilterKeeps as it would be if a matching "!" pattern kept the name
\* wherever it stands in the list
FilterKeeps_any_negation(filename, patterns) ==
    \/ \E i \in 1..Len(patterns) :
          patterns[i][1] = "!" /\ Fnmatch(filename, Tail(patterns[i]))
    \/ \A i \in 1..Len(patterns) :
          patterns[i][1] # "!" => ~Fnmatch(filename, patterns[i])

\* Whether one filename passes the patterns: the first pattern that matches
\* decides, a "!" pattern keeping the name and any other dropping it
RECURSIVE FilterKeeps(_, _)
FilterKeeps(filename, patterns) ==
    IF patterns = <<>> THEN TRUE
    ELSE LET pattern == Head(patterns)
         IN IF pattern[1] = "!"
            THEN IF Fnmatch(filename, Tail(pattern)) THEN TRUE
                 ELSE FilterKeeps(filename, Tail(patterns))
            ELSE IF Fnmatch(filename, pattern) THEN FALSE
                 ELSE FilterKeeps(filename, Tail(patterns))

\* Builder.filter_files: the patterns are the merged ignore_files of the
\* configuration, or default_ignores when it has none
ignore_patterns(config) ==
    IF ConfigMergedGetIsNone(config, "ignore_files") THEN default_ignores
    ELSE ConfigMergedGet(config, "ignore_files")

\* Builder.filter_files: the kept names, in the order given
filter_files(files, patterns) ==
    LET Keep(filename) == FilterKeeps(filename, patterns)
    IN SelectSeq(files, Keep)

Reverse(seq) == [i \in 1..Len(seq) |-> seq[Len(seq) + 1 - i]]

\* os.listdir(dirpath), dirpath relative to the project folder. The sidecar
\* and the output folder are listed once they exist. The order of os.listdir
\* is arbitrary: reversed tells which of two orders the file system gives.
Listdir(dirpath, reversed) ==
    LET entries ==
            CASE dirpath = <<>> ->
                    <<POSTS, Chars("a.md"), Chars("b.md")>>
                    \o (IF meta["a.md"].exists THEN <<A_YML>> ELSE <<>>)
                    \o (IF \E d \in DOMAIN dst : dst[d].exists
                        THEN <<OUTPUT_FOLDER>> ELSE <<>>)
              [] dirpath = POSTS ->
                    <<CONFIG_YML, CSS, <<"h","e","l","l","o",".","m","d">> >>
              [] dirpath = PathJoin(POSTS, CSS) ->
                    <<CONFIG_YML, <<"m","a","i","n",".","s","c","s","s">> >>
              [] dirpath = OUTPUT_FOLDER ->
                    IF DstAt(PathJoin(PathJoin(project_folder, OUTPUT_FOLDER),
                                      B_HTML)).exists
                    THEN <<B_HTML>> ELSE <<>>
              [] OTHER -> <<>>
    IN IF reversed THEN Reverse(entries) ELSE entries

\* os.path.isdir(os.path.join(dirpath, f))
IsDir(dirpath, f) ==
    \/ dirpath = <<>> /\ f \in {POSTS, OUTPUT_FOLDER}
    \/ dirpath = POSTS /\ f = CSS

\* iter_contexts._walk: the source files in the order their contexts are
\* yielded, the subdirectories of a directory before its own files
RECURSIVE Walk(_, _)
RECURSIVE WalkDirs(_, _, _)
\* _walk as it would be if a directory's own files came before its
\* subdirectories
Walk_files_first(dirpath, reversed) ==
    LET Dir(f) == IsDir(dirpath, f)
        NotDir(f) == ~IsDir(dirpath, f)
        listing == Listdir(dirpath, reversed)
        dirnames == filter_files(SelectSeq(listing, Dir), ignore_patterns(local_config(dirpath)))
        filenames == filter_files(SelectSeq(listing, NotDir), ignore_patterns(local_config(dirpath)))
    IN [i \in 1..Len(filenames) |-> FileId(PathJoin(dirpath, filenames[i]))]
       \o WalkDirs(dirpath, dirnames, reversed)
WalkDirs(dirpath, dirnames, reversed) ==
    IF dirnames = <<>> THEN <<>>
    ELSE Walk(PathJoin(dirpath, Head(dirnames)), reversed)
         \o WalkDirs(dirpath, Tail(dirnames), reversed)
Walk(dirpath, reversed) ==
    LET Dir(f) == IsDir(dirpath, f)
        NotDir(f) == ~IsDir(dirpath, f)
        listing == Listdir(dirpath, reversed)
        dirnames == filter_files(SelectSeq(listing, Dir), ignore_patterns(local_config(dirpath)))
        filenames == filter_files(SelectSeq(listing, NotDir), ignore_patterns(local_config(dirpath)))
    IN WalkDirs(dirpath, dirnames, reversed)
       \o [i \in 1..Len(filenames) |-> FileId(PathJoin(dirpath, filenames[i]))]

(***************************************************************************)
(* Module storage and the subscribers of the blog and tags modules.        *)
(***************************************************************************)
\* dict.setdefault(k, v), the dict afterwards
SetDefault(d, k, v) == IF k \in DOMAIN d THEN d ELSE (k :> v) @@ d
\* d[k] = v, the dict afterwards
SetItem(d, k, v) == (k :> v) @@ d

\* Context.slug
slug(source_filename) ==
    LET directory == PathSplit(source_filename)[1]
        filename == PathSplit(source_filename)[2]
        basename == PathSplitext(filename)[1]
    IN IF basename = INDEX THEN RStrip(directory, SLASH)
       ELSE PathJoin(directory, basename)

YEAR == <<"y","e","a","r">>
MONTH == <<"m","o","n","t","h">>
DAY == <<"d","a","y">>
PUB_DATE_MATCH ==
    <<"/","<","i","n","t",":","y","e","a","r",">",
      "/","<","i","n","t",":","m","o","n","t","h",">",
      "/","<","i","n","t",":","d","a","y",">","/">>

\* str.strip('/')
Strip(s) == RStrip(LStrip(s, SLASH), SLASH)

\* blog.test_pattern: (year, month, day) when the path matches the pattern
\* followed by /<path:extra>, None (the empty tuple here) on NotFound
test_pattern(path, pattern) ==
    LET rule == <<SLASH>> \o Strip(pattern)
                \o <<"/","<","p","a","t","h",":","e","x","t","r","a",">">>
        found == rule_match(ParseRule(rule), <<SLASH>> \o LStrip(Strip(path), SLASH))
        values == CHOOSE v \in found : TRUE
    IN IF found = {} THEN <<>>
       ELSE <<values[YEAR], values[MONTH], values[DAY]>>

\* datetime(year, month, day) raises ValueError unless the date exists
DaysInMonth(year, month) ==
    CASE month \in {4, 6, 9, 11} -> 30
      [] month = 2 ->
            IF year % 4 = 0 /\ (year % 100 # 0 \/ year % 400 = 0) THEN 29 ELSE 28
      [] OTHER -> 31
datetime_raises(rv) ==
    ~ /\ rv[1] \in 1..9999
      /\ rv[2] \in 1..12
      /\ rv[3] \in 1..DaysInMonth(rv[1], rv[2])

\* blog.process_blog_entry: what test_pattern gives for a context that has no
\* pub_date and whose configuration does not set the pattern to None
blog_slug_date(ctx) ==
    LET pattern == ConfigGet(ctx.config, "modules.blog.pub_date_match", PUB_DATE_MATCH)
    IN IF ctx.pub_date = <<>> /\ pattern # <<>>
       THEN test_pattern(slug(Chars(ctx.source_filename)), pattern)
       ELSE <<>>

\* blog.process_blog_entry raises ValueError: datetime(*rv) on a date that
\* does not exist
process_blog_entry_raises(ctx) ==
    blog_slug_date(ctx) # <<>> /\ datetime_raises(blog_slug_date(ctx))

\* blog.process_blog_entry: the context afterwards
process_blog_entry_ctx(ctx) ==
    IF blog_slug_date(ctx) # <<>> /\ ~datetime_raises(blog_slug_date(ctx))
    THEN [ctx EXCEPT !.pub_date = blog_slug_date(ctx)]
    ELSE ctx

\* process_blog_entry as it would be if it stored every dated context
process_blog_entry_any_file(ctx, st) ==
    LET c == process_blog_entry_ctx(ctx)
    IN IF c.pub_date # <<>>
       THEN LET st1 == SetDefault(st, "blog", <<>>)
                year == c.pub_date[1]
                blog == SetDefault(st1["blog"], year, <<>>)
            IN SetItem(st1, "blog", SetItem(blog, year, Append(blog[year], Ref(c))))
       ELSE st

\* blog.process_blog_entry: Builder.storage afterwards
process_blog_entry(ctx, st) ==
    LET c == process_blog_entry_ctx(ctx)
    IN IF c.pub_date # <<>> /\ is_text(c)
       THEN LET st1 == SetDefault(st, "blog", <<>>)
                year == c.pub_date[1]
                blog == SetDefault(st1["blog"], year, <<>>)
            IN SetItem(st1, "blog", SetItem(blog, year, Append(blog[year], Ref(c))))
       ELSE st

\* The sort key of get_all_entries: (pub_date, day-order). A pub_date is
\* (year, month, day); one given by a header is a year and stands for its
\* first day. The key is a number that orders as the pair does.
EntryKey(ctx) ==
    LET d == ctx.pub_date
        ordinal == IF Len(d) = 1 THEN d[1] * 10000 + 101
                   ELSE d[1] * 10000 + d[2] * 100 + d[3]
    IN ordinal * 10 + ConfigGet(ctx.config, "day-order", 0)

\* list.sort(key, reverse=True): descending keys, entries of equal key in
\* the order they had
RECURSIVE SortReverse(_, _)
SortReverse(entries, contexts) ==
    IF entries = <<>> THEN <<>>
    ELSE LET sorted == SortReverse(SubSeq(entries, 1, Len(entries) - 1), contexts)
             x == entries[Len(entries)]
             K(e) == EntryKey(contexts[e.source_filename])
             before == {i \in 1..Len(sorted) : K(sorted[i]) >= K(x)}
             n == Cardinality(before)
         IN SubSeq(sorted, 1, n) \o <<x>> \o SubSeq(sorted, n + 1, Len(sorted))

\* The years of the blog storage in some order, and the concatenation of
\* their lists
RECURSIVE ExtendAll(_, _)
ExtendAll(blog, years) ==
    IF years = {} THEN <<>>
    ELSE LET y == CHOOSE y \in years : TRUE
         IN blog[y] \o ExtendAll(blog, years \ {y})

\* blog.get_all_entries
get_all_entries(st, contexts) ==
    LET blog == DictGet(st, "blog", <<>>)
    IN SortReverse(ExtendAll(blog, DOMAIN blog), contexts)

\* Pagination.pages: int(ceil(total / float(per_page)))
Pagination_pages(entries, per_page) == (Len(entries) + per_page - 1) \div per_page

\* Pagination.has_next
Pagination_has_next(entries, page, per_page) == page < Pagination_pages(entries, per_page)

\* get_slice as it would be if a page began one entry early
Pagination_get_slice_overlapping(entries, page, per_page) ==
    LET start == IF page = 1 THEN 0 ELSE (page - 1) * per_page - 1
        stop == page * per_page
    IN SubSeq(entries, start + 1, IF stop < Len(entries) THEN stop ELSE Len(entries))

\* Pagination.get_slice: entries[(page - 1) * per_page : page * per_page]
Pagination_get_slice(entries, page, per_page) ==
    LET start == (page - 1) * per_page
        stop == page * per_page
    IN SubSeq(entries, start + 1, IF stop < Len(entries) THEN stop ELSE Len(entries))

\* How many turns of the loop of write_index_page are followed before the
\* loop is given up as one that does not end
MaxTurns == 8

\* blog.write_index_page: the loop from the given page on; each turn writes
\* the index page of pagination.page, whose template shows get_slice()
RECURSIVE write_index_pages_from(_, _, _, _, _)
write_index_pages_from(entries, page, per_page, use_pagination, turns) ==
    LET written == [page |-> page, slice |-> Pagination_get_slice(entries, page, per_page)]
    IN IF turns = 0 THEN <<[page |-> 0, slice |-> <<>>]>>
       ELSE IF ~use_pagination \/ ~Pagination_has_next(entries, page, per_page)
            THEN <<written>>
       ELSE <<written>>
            \o write_index_pages_from(entries, page + 1, per_page, use_pagination, turns - 1)

\* blog.write_index_page: the index pages written, in order
write_index_page(config, st, contexts) ==
    LET use_pagination == ConfigRootGet(config, "modules.blog.use_pagination", TRUE)
        per_page == ConfigRootGet(config, "modules.blog.per_page", 10)
    IN write_index_pages_from(get_all_entries(st, contexts), 1, per_page,
                              use_pagination, MaxTurns)

\* tags.get_tag_summary: the count reported for each tag
get_tag_summary(st) ==
    LET by_tag == DictGet(DictGet(st, "tags", <<>>), "by_tag", <<>>)
    IN [t \in DOMAIN by_tag |-> Len(by_tag[t])]

\* by_tag.setdefault(tag, []).append(context) for each tag in turn
RECURSIVE AppendTags(_, _, _)
AppendTags(by_tag, tags, ref) ==
    IF tags = <<>> THEN by_tag
    ELSE LET d == SetDefault(by_tag, Head(tags), <<>>)
         IN AppendTags(SetItem(d, Head(tags), Append(d[Head(tags)], ref)),
                       Tail(tags), ref)

\* tags.remember_tags: Builder.storage afterwards
remember_tags(ctx, st) ==
    LET tags == IF ConfigMergedGetIsNone(ctx.config, "tags") THEN <<>>
                ELSE ConfigMergedGet(ctx.config, "tags")
        st1 == SetDefault(st, "tags", <<>>)
        s1 == SetDefault(st1["tags"], "by_file", <<>>)
        s2 == SetItem(s1, "by_file", SetItem(s1["by_file"], ctx.source_filename, tags))
        s3 == SetDefault(s2, "by_tag", <<>>)
        s4 == SetItem(s3, "by_tag", AppendTags(s3["by_tag"], tags, Ref(ctx)))
    IN SetItem(st1, "tags", s4)

\* Every context reference that module storage holds
StorageRefs ==
    (IF "blog" \in DOMAIN storage
     THEN UNION {{storage["blog"][y][i] : i \in 1..Len(storage["blog"][y])} :
                 y \in DOMAIN storage["blog"]}
     ELSE {})
    \cup
    (IF "tags" \in DOMAIN storage /\ "by_tag" \in DOMAIN storage["tags"]
     THEN LET by_tag == storage["tags"]["by_tag"]
          IN UNION {{by_tag[t][i] : i \in 1..Len(by_tag[t])} : t \in DOMAIN by_tag}
     ELSE {})

(***************************************************************************)
(* The build pass (Builder.run).                                           *)
(***************************************************************************)
InitBuild ==
    /\ now = 0
    /\ srcTime = [f \in Files |-> 0]
    /\ meta = [f \in Files |-> Absent]
    /\ dst = [d \in DestPaths |-> Absent]
    /\ pc = "idle"
    /\ pass = 0
    /\ todo = <<>>
    /\ cur = NoContext
    /\ key = ""
    /\ storage = <<>>
    /\ trace = <<>>
    /\ stdout = <<>>
    /\ order = <<>>
    /\ unchanged = FALSE
    /\ passClean = FALSE

\* No Context is under construction outside a pass
NoName ==
    [dir |-> <<>>, base |-> <<>>, ext |-> <<>>, program |-> "", programs |-> <<>>,
     prefix_path |-> <<>>, source_filename |-> <<>>, program_name |-> "", desired |-> <<>>,
     destination_filename |-> <<>>, state |-> "idle"]

\* No call of filter_files is being looked at outside the walk
NoFilter == [state |-> "idle", files |-> <<>>, config |-> RootConfig, result |-> <<>>]

\* No markup source is being looked at outside a pass
NoPrepare ==
    [state |-> "idle", source |-> [header_block |-> FALSE, lines |-> <<>>],
     local_config |-> RootConfig, config_at_start |-> RootConfig,
     page |-> NewPage(NoContext), first |-> NewPage(NoContext), calls |-> 0,
     sibling |-> NoContext, later |-> NoContext]

\* No call of link_to is being looked at outside a pass
NoRoutes ==
    [state |-> "idle", config |-> RootConfig, url_map |-> <<>>, tags_active |-> FALSE,
     key |-> "", values |-> <<>>, result |-> [raised |-> "", url |-> <<>>]]

\* No pass is being looked at through the modules outside the module specification
NoModules ==
    [state |-> "idle", config |-> RootConfig, published |-> <<>>, storage |-> <<>>,
     contexts |-> <<>>, raised |-> "", pages |-> <<>>]

Init ==
    /\ InitBuild
    /\ nm = NoName /\ flt = NoFilter /\ pp = NoPrepare /\ rt = NoRoutes
    /\ mods = NoModules

\* One operation of the pass, as the history records it
Entry(op, ctx, value) ==
    [op |-> op, source_filename |-> ctx.source_filename, value |-> value]

\* An exception that is swallowed, the loop going on with the next file
pc_swallow == "iter"

\* Where Builder.run is once an exception leaves a step: nothing catches it
\* (the except clauses log and re-raise), so the pass is over
pc_on_exception == "raised"

\* An exception leaves the current step
Raise ==
    /\ pc' = pc_on_exception
    /\ trace' = Append(trace, Entry("raise", cur, TRUE))

\* Storage that is not cleared
storage_kept == storage

\* Builder.anything_needs_build: whether a context that iter_contexts yields
\* with prepare=False, which is the context as Context.__init__ leaves it
\* without a call of prepare(), needs building
anything_needs_build ==
    LET contexts == Walk(<<>>, FALSE)
    IN \E i \in 1..Len(contexts) : needs_build(NewContext(contexts[i], pass))

\* self.storage.clear(): Builder.storage afterwards
storage_clear == <<>>

\* A loop that runs every context, stale or not
run_guard_always(ctx) == TRUE

\* Builder.run: if context.needs_build
run_guard(ctx) == needs_build(ctx)

\* A generator that goes on to the next file without the loop body running
pc_skip_loop_body == "iter"

\* Builder.run: the loop body follows each context the generator yields
pc_after_yield == "loop"

\* A constructor that publishes every page
AfterPrepared_publish_all(ctx) == "publish"

\* Context.__init__: after after_file_prepared, only a public page is published
AfterPrepared(ctx) == IF public(ctx) THEN "publish" ELSE pc_after_yield

\* A loop that publishes the page again once it is built
pc_publish_after_print == "publish"

\* A loop that ends after the first file it builds
pc_finish_after_print == "finish"

\* Builder.run: after print the for loop asks the generator for the next context
pc_after_print == "iter"

\* Builder.run is called: storage is cleared and iter_contexts() starts
BuilderRunStart ==
    /\ pc = "idle"
    /\ pass < MaxPasses
    /\ pass' = pass + 1
    /\ storage' = storage_clear
    /\ \E reversed \in BOOLEAN :
          /\ todo' = Walk(<<>>, reversed)
          /\ order' = Walk(<<>>, reversed)
    /\ pc' = "iter"
    /\ cur' = NoContext
    /\ key' = ""
    /\ trace' = <<>>
    /\ stdout' = <<>>
    /\ passClean' = unchanged
    /\ UNCHANGED <<fsVars, unchanged>>
    /\ UNCHANGED pureVars

\* The generator is resumed and constructs the Context of the next file
IterContextsNext ==
    /\ pc = "iter"
    /\ todo # <<>>
    /\ cur' = NewContext(Head(todo), pass)
    /\ todo' = Tail(todo)
    /\ trace' = Append(trace, Entry("Context.__init__", cur', TRUE))
    /\ pc' = "prepare"
    /\ UNCHANGED <<fsVars, pass, key, storage, stdout, order, unchanged, passClean>>
    /\ UNCHANGED pureVars

\* The generator is exhausted: the for loop of Builder.run ends
IterContextsStop ==
    /\ pc = "iter"
    /\ todo = <<>>
    /\ pc' = "finish"
    /\ UNCHANGED <<fsVars, pass, todo, cur, key, storage, trace, stdout, order,
                   unchanged, passClean>>
    /\ UNCHANGED pureVars

\* Context.__init__: self.program.prepare(), which may raise
ProgramPrepare ==
    /\ pc = "prepare"
    /\ \/ /\ cur' = Prepared(cur)
          /\ trace' = Append(trace, Entry("program.prepare", cur, TRUE))
          /\ pc' = "after_prepare"
       \/ Raise /\ UNCHANGED cur
    /\ UNCHANGED <<fsVars, pass, todo, key, storage, stdout, order, unchanged, passClean>>
    /\ UNCHANGED pureVars

\* Context.__init__: after_file_prepared.send(self); a subscriber may raise
SendAfterFilePrepared ==
    /\ pc = "after_prepare"
    /\ \/ /\ trace' = Append(trace, Entry("after_file_prepared", cur, TRUE))
          /\ pc' = AfterPrepared(cur)
       \/ Raise
    /\ UNCHANGED <<fsVars, pass, todo, cur, key, storage, stdout, order, unchanged,
                   passClean>>
    /\ UNCHANGED pureVars

\* Context.__init__: after_file_published.send(self): process_blog_entry, then
\* remember_tags; either may raise, what the earlier one stored staying stored
SendAfterFilePublished ==
    /\ pc = "publish"
    /\ \/ /\ ~process_blog_entry_raises(cur)
          /\ trace' = Append(trace, Entry("after_file_published", cur, TRUE))
          /\ cur' = process_blog_entry_ctx(cur)
          /\ storage' = remember_tags(cur', process_blog_entry(cur, storage))
          /\ pc' = pc_after_yield
       \/ Raise /\ UNCHANGED <<cur, storage>>
       \/ /\ Raise
          /\ cur' = process_blog_entry_ctx(cur)
          /\ storage' = process_blog_entry(cur, storage)
    /\ UNCHANGED <<fsVars, pass, todo, key, stdout, order, unchanged, passClean>>
    /\ UNCHANGED pureVars

\* Builder.run: if context.needs_build: key = context.is_new and "A" or "U"
BuilderRunNeedsBuild ==
    /\ pc = "loop"
    /\ trace' = Append(trace, Entry("run.needs_build", cur, needs_build(cur)))
    /\ IF run_guard(cur)
       THEN /\ key' = (IF is_new(cur) THEN "A" ELSE "U")
            /\ pc' = "ctx_run"
       ELSE /\ key' = key
            /\ pc' = "iter"
    /\ UNCHANGED <<fsVars, pass, todo, cur, storage, stdout, order, unchanged, passClean>>
    /\ UNCHANGED pureVars

\* Context.run: before_file_processed.send(self); a subscriber may raise
SendBeforeFileProcessed ==
    /\ pc = "ctx_run"
    /\ \/ /\ trace' = Append(trace, Entry("before_file_processed", cur, TRUE))
          /\ pc' = "ctx_check"
       \/ Raise
    /\ UNCHANGED <<fsVars, pass, todo, cur, key, storage, stdout, order, unchanged,
                   passClean>>
    /\ UNCHANGED pureVars

\* Context.run: if self.needs_build: self.build()
ContextRunNeedsBuild ==
    /\ pc = "ctx_check"
    /\ trace' = Append(trace, Entry("context.needs_build", cur, needs_build(cur)))
    /\ pc' = (IF needs_build(cur) THEN "build" ELSE "print")
    /\ UNCHANGED <<fsVars, pass, todo, cur, key, storage, stdout, order, unchanged,
                   passClean>>
    /\ UNCHANGED pureVars

\* Context.build: before_file_built.send(self); a subscriber may raise
SendBeforeFileBuilt ==
    /\ pc = "build"
    /\ \/ /\ trace' = Append(trace, Entry("before_file_built", cur, TRUE))
          /\ pc' = "program_run"
       \/ Raise
    /\ UNCHANGED <<fsVars, pass, todo, cur, key, storage, stdout, order, unchanged,
                   passClean>>
    /\ UNCHANGED pureVars

\* Context.build: self.program.run() writes the destination, or raises (an
\* I/O error, a template error, a non-zero exit of sassc)
ProgramRun ==
    /\ pc = "program_run"
    /\ \/ /\ dst' = [dst EXCEPT ![full_destination_filename(cur)] =
                        [exists |-> TRUE, mtime |-> now]]
          /\ trace' = Append(trace, Entry("program.run", cur, TRUE))
          /\ pc' = "print"
       \/ Raise /\ UNCHANGED dst
    /\ UNCHANGED <<now, srcTime, meta, pass, todo, cur, key, storage, stdout, order,
                   unchanged, passClean>>
    /\ UNCHANGED pureVars

\* Builder.run: print(key, context.source_filename)
BuilderRunPrint ==
    /\ pc = "print"
    /\ stdout' = Append(stdout, <<key, cur.source_filename>>)
    /\ trace' = Append(trace, Entry("print", cur, TRUE))
    /\ pc' = pc_after_print
    /\ UNCHANGED <<fsVars, pass, todo, cur, key, storage, order, unchanged, passClean>>
    /\ UNCHANGED pureVars

\* Builder.run: before_build_finished.send(self); a subscriber may raise
SendBeforeBuildFinished ==
    /\ pc = "finish"
    /\ \/ /\ trace' = Append(trace, Entry("before_build_finished", NoContext, TRUE))
          /\ pc' = "returned"
       \/ Raise
    /\ UNCHANGED <<fsVars, pass, todo, cur, key, storage, stdout, order, unchanged,
                   passClean>>
    /\ UNCHANGED pureVars

\* Builder.run returns, or the exception reaches its caller
BuilderRunReturn ==
    /\ pc \in {"returned", "raised"}
    /\ pc' = "idle"
    /\ unchanged' = (pc = "returned")
    /\ trace' = <<>>
    /\ stdout' = <<>>
    /\ order' = <<>>
    /\ todo' = <<>>
    /\ cur' = NoContext
    /\ key' = ""
    /\ passClean' = FALSE
    /\ UNCHANGED <<fsVars, pass, storage>>
    /\ UNCHANGED pureVars

(***************************************************************************)
(* The author of the site, between two passes.                             *)
(***************************************************************************)
\* Time passes
Tick ==
    /\ pc = "idle"
    /\ now < MaxTime
    /\ now' = now + 1
    /\ UNCHANGED <<srcTime, meta, dst, passVars, unchanged>>
    /\ UNCHANGED pureVars

\* A source file is edited
TouchSource ==
    /\ pc = "idle"
    /\ \E f \in Edited : srcTime' = [srcTime EXCEPT ![f] = now]
    /\ unchanged' = FALSE
    /\ UNCHANGED <<now, meta, dst, passVars>>
    /\ UNCHANGED pureVars

\* A sidecar metadata file is written
TouchSidecar ==
    /\ pc = "idle"
    /\ \E f \in WithSidecar : meta' = [meta EXCEPT ![f] = [exists |-> TRUE, mtime |-> now]]
    /\ unchanged' = FALSE
    /\ UNCHANGED <<now, srcTime, dst, passVars>>
    /\ UNCHANGED pureVars

Next ==
    \/ BuilderRunStart
    \/ IterContextsNext
    \/ IterContextsStop
    \/ ProgramPrepare
    \/ SendAfterFilePrepared
    \/ SendAfterFilePublished
    \/ BuilderRunNeedsBuild
    \/ SendBeforeFileProcessed
    \/ ContextRunNeedsBuild
    \/ SendBeforeFileBuilt
    \/ ProgramRun
    \/ BuilderRunPrint
    \/ SendBeforeBuildFinished
    \/ BuilderRunReturn
    \/ Tick
    \/ TouchSource
    \/ TouchSidecar

Spec == Init /\ [][Next]_vars

(***************************************************************************)
(* Filename derivation on its own: one Context is constructed for a source *)
(* path, a program and a prefix path drawn from sample sets.               *)
(***************************************************************************)
SampleDirs ==
    {<<>>, POSTS, <<"s","t","a","t","i","c">>, <<"a","/","b">>, SCSS}
SampleBases ==
    {INDEX, <<"h","e","l","l","o">>, <<"l","o","g","o">>, <<"a",".","b">>}
SampleExts ==
    {<<".","m","d">>, <<".","h","t","m","l">>, <<".","p","n","g">>,
     <<".","s","c","s","s">>, <<>>}
\* The program key of the configuration: "" when the configuration sets none
SamplePrograms == {""} \cup PROGRAM_CLASS_FOR_NAME
SamplePrefixes == {<<>>, <<"/","b","l","o","g">>}
\* The programs entries of the configuration: none, or one of two mappings
\* whose patterns overlap
SampleMappings ==
    {<<>>,
     << <<(<<"p","o","s","t","s","/","*">>), "html">>,
        <<(<<"*",".","m","d">>), "copy">>,
        <<(<<"*">>), "scss">> >>,
     << <<(<<"*",".","p","n","g">>), "md">>,
        <<(<<"l","o","g","o",".","*">>), "html">> >>}

InitNames ==
    /\ InitBuild
    /\ mods = NoModules
    /\ flt = NoFilter
    /\ pp = NoPrepare
    /\ rt = NoRoutes
    /\ \E d \in SampleDirs, b \in SampleBases, e \in SampleExts,
          p \in SamplePrograms, x \in SamplePrefixes, m \in SampleMappings :
          nm = [NoName EXCEPT !.dir = d, !.base = b, !.ext = e, !.program = p,
                              !.programs = m, !.prefix_path = x,
                              !.source_filename = PathJoin(d, b \o e),
                              !.state = "new"]

\* Context.__init__: program_name, program and destination_filename
ContextInitName ==
    /\ nm.state = "new"
    /\ LET config == << [k \in {"programs"} |-> nm.programs] >>
           program_name ==
               IF nm.program # "" THEN nm.program
               ELSE guess_program(programs_mapping(config), nm.source_filename)
       IN nm' = [nm EXCEPT
                   !.program_name = program_name,
                   !.desired = get_desired_filename(program_name, nm.source_filename),
                   !.destination_filename =
                       destination_filename_for(nm.prefix_path, program_name,
                                                nm.source_filename),
                   !.state = "done"]
    /\ UNCHANGED <<buildVars, flt, pp, rt, mods>>

NextNames == ContextInitName

SpecNames == InitNames /\ [][NextNames]_vars

(***************************************************************************)
(* Builder.filter_files on its own: one call on the names of a directory   *)
(* listing, under a configuration whose ignore_files list is drawn from    *)
(* sample patterns or is not set.                                          *)
(***************************************************************************)
SamplePatterns ==
    {<<"!","k","e","e","p",".","y","m","l">>, <<"*",".","y","m","l">>,
     <<"_","*">>, <<"!","_","p","o","s","t","s">>, <<"!","*",".","m","d">>,
     <<"*">>}
\* The directory names and the file names of a listing, filtered separately
SampleListings ==
    {<<(<<"_","p","o","s","t","s">>), (<<"_","d","r","a","f","t","s">>), POSTS>>,
     <<(<<"k","e","e","p",".","y","m","l">>), A_YML, (<<"a",".","m","d">>)>>}
SampleIgnoreLists ==
    UNION {[1..n -> SamplePatterns] : n \in 1..MaxPatterns}
SampleIgnoreConfigs ==
    {RootConfig} \cup {<< [k \in {"ignore_files"} |-> l] >> : l \in SampleIgnoreLists}

InitFilter ==
    /\ InitBuild
    /\ mods = NoModules
    /\ nm = NoName
    /\ pp = NoPrepare
    /\ rt = NoRoutes
    /\ \E files \in SampleListings, config \in SampleIgnoreConfigs :
          flt = [NoFilter EXCEPT !.files = files, !.config = config, !.state = "new"]

\* Builder.filter_files(files, config)
FilterFiles ==
    /\ flt.state = "new"
    /\ flt' = [flt EXCEPT !.result = filter_files(flt.files, ignore_patterns(flt.config)),
                          !.state = "done"]
    /\ UNCHANGED <<buildVars, nm, pp, rt, mods>>

NextFilter == FilterFiles

SpecFilter == InitFilter /\ [][NextFilter]_vars

(***************************************************************************)
(* prepare() on its own: the Context of one markup source F is constructed *)
(* in a directory whose configuration node local_config is also the node   *)
(* of a sibling constructed before F and of a context constructed after    *)
(* it; prepare() may then be called on F again.                            *)
(***************************************************************************)
\* Sources with a header block, between limits or ended by a blank line, and
\* sources without one
SampleSources ==
    {[header_block |-> TRUE,
      lines |-> <<Limit, KV("title", "A"), KV("tags", <<"python">>), Limit,
                  Text("body")>>],
     [header_block |-> TRUE,
      lines |-> <<KV("title", "A"), KV("destination_filename", B_HTML), Blank,
                  Text("body"), Text("more")>>],
     [header_block |-> TRUE,
      lines |-> <<Limit, KV("public", FALSE), KV("summary", "S"), Limit,
                  Text("body")>>],
     [header_block |-> TRUE,
      lines |-> <<Limit, KV("tags", <<"python">>), KV("pub_date", 2020), Limit>>],
     [header_block |-> TRUE,
      lines |-> <<Limit, Limit, KV("title", "A"), Limit, Text("body"), Limit,
                  Text("more")>>],
     [header_block |-> TRUE, lines |-> <<Limit, KV("title", "A")>>],
     [header_block |-> FALSE, lines |-> <<Text("body"), Text("more")>>],
     [header_block |-> FALSE, lines |-> <<Text("intro"), Blank, Text("body")>>],
     [header_block |-> FALSE, lines |-> <<Blank, Text("body")>>],
     [header_block |-> FALSE, lines |-> <<>>]}

\* The configuration node of the directory: the root's, with no entry, with
\* a tags list, or with public set to false
SampleLocalConfigs ==
    {RootConfig, << [k \in {"tags"} |-> <<"blog">>] >>, << [k \in {"public"} |-> FALSE] >>}

\* The keys the lookups are compared on
SampleKeys == {"title", "tags", "public", "summary", "destination_filename", "pub_date"}

\* Context.__init__ up to the prepare flag, for a source of the directory
NewContextIn(config, name, chars, program_name) ==
    [source_filename |-> name, pass |-> 0, program_name |-> program_name,
     destination_filename |-> destination_filename_for(prefix_path, program_name, chars),
     config |-> config, pub_date |-> <<>>]

\* The sibling constructed before F and the context constructed after it,
\* each with the header of its own source
SiblingContext(config) ==
    process_header(NewContextIn(config, "sibling.md",
                                <<"s","i","b","l","i","n","g",".","m","d">>, "md"),
                   ("title" :> "Sibling") @@ ("tags" :> <<"x">>))
LaterContext(config) ==
    process_header(NewContextIn(config, "later.md",
                                <<"l","a","t","e","r",".","m","d">>, "md"),
                   "title" :> "Later")

InitPrepare ==
    /\ InitBuild
    /\ mods = NoModules
    /\ nm = NoName
    /\ flt = NoFilter
    /\ rt = NoRoutes
    /\ \E source \in SampleSources, config \in SampleLocalConfigs,
          program_name \in {"html", "md"} :
          pp = [NoPrepare EXCEPT
                  !.state = "new",
                  !.source = source,
                  !.local_config = config,
                  !.config_at_start = config,
                  !.page = NewPage(NewContextIn(config, "page", <<"p","a","g","e">>,
                                                program_name)),
                  !.sibling = SiblingContext(config)]

\* What a call of prepare() on F leaves of the directory's node: the node
\* process_header called add_from_dict on, when it got that far
LocalConfigAfterPrepare ==
    LET header == load_header(pp.source.lines)
    IN IF program_prepare(pp.page, pp.source.lines).raised THEN pp.local_config
       ELSE ConfigAddFromDict_receiver(pp.local_config, header.cfg.dict)

\* Context.__init__ with prepare=True: self.program.prepare()
ContextInitPrepare ==
    /\ pp.state = "new"
    /\ LET rv == program_prepare(pp.page, pp.source.lines)
       IN pp' = [pp EXCEPT !.state = IF rv.raised THEN "raised" ELSE "constructed",
                           !.page = rv.page,
                           !.first = rv.page,
                           !.calls = 1,
                           !.local_config = LocalConfigAfterPrepare]
    /\ UNCHANGED <<buildVars, nm, flt, rt, mods>>

\* prepare() called once more on the same context, the source unchanged
ProgramPrepareAgain ==
    /\ pp.state = "constructed"
    /\ pp.calls < MaxPrepareCalls
    /\ LET rv == program_prepare(pp.page, pp.source.lines)
       IN pp' = [pp EXCEPT !.state = IF rv.raised THEN "raised" ELSE "constructed",
                           !.page = rv.page,
                           !.calls = @ + 1,
                           !.local_config = LocalConfigAfterPrepare]
    /\ UNCHANGED <<buildVars, nm, flt, rt, mods>>

\* iter_contexts._walk: the next Context of the directory, on local_config
ContextInitLater ==
    /\ pp.state = "constructed"
    /\ pp.later = NoContext
    /\ pp' = [pp EXCEPT !.later = LaterContext(pp.local_config)]
    /\ UNCHANGED <<buildVars, nm, flt, rt, mods>>

NextPrepare ==
    \/ ContextInitPrepare
    \/ ProgramPrepareAgain
    \/ ContextInitLater

SpecPrepare == InitPrepare /\ [][NextPrepare]_vars

(***************************************************************************)
(* Routes on their own: the tags module is set up on a builder and link_to *)
(* is called for an endpoint with some values.                             *)
(***************************************************************************)
\* The root configuration: no tag_url, or one that relocates the tag pages
SampleRouteConfigs ==
    {RootConfig,
     << [k \in {"modules.tags.tag_url"} |->
            <<"/","t","/","<","t","a","g",">",".","h","t","m","l">>] >>}
SampleEndpoints == {"tag", "tagfeed", "tags", "page", "archive"}
TAG == <<"t","a","g">>
SampleValues ==
    {<<>>,
     TAG :> <<"p","y","t","h","o","n">>,
     TAG :> <<"c","+","+">>,
     <<"s","l","u","g">> :> <<"a","/","b">>,
     (TAG :> <<"p","y","t","h","o","n">>) @@ (<<"p","a","g","e">> :> <<"2">>),
     (TAG :> <<"p","y","t","h","o","n">>) @@ (<<"s","l","u","g">> :> <<"a","/","b">>)}

InitRoutes ==
    /\ InitBuild
    /\ mods = NoModules
    /\ nm = NoName
    /\ flt = NoFilter
    /\ pp = NoPrepare
    /\ \E config \in SampleRouteConfigs, k \in SampleEndpoints, values \in SampleValues :
          rt = [NoRoutes EXCEPT !.state = "new", !.config = config,
                                !.url_map = InitialUrlMap(config),
                                !.key = k, !.values = values]

\* Builder.__init__: mod.setup(self) for the tags module
TagsSetup ==
    /\ rt.state = "new"
    /\ ~rt.tags_active
    /\ rt' = [rt EXCEPT !.url_map = tags_setup(rt.url_map, rt.config),
                        !.tags_active = TRUE]
    /\ UNCHANGED <<buildVars, nm, flt, pp, mods>>

\* Builder.link_to(_key, **values)
LinkTo ==
    /\ rt.state = "new"
    /\ rt' = [rt EXCEPT !.result = link_to(rt.url_map, rt.key, rt.values),
                        !.state = "done"]
    /\ UNCHANGED <<buildVars, nm, flt, pp, mods>>

NextRoutes == TagsSetup \/ LinkTo

SpecRoutes == InitRoutes /\ [][NextRoutes]_vars

(***************************************************************************)
(* The blog and tags modules through one pass: the contexts published one  *)
(* after the other (after_file_published), then the index pages written    *)
(* when the build finishes (before_build_finished).                        *)
(***************************************************************************)
\* The files of the sample blog: dated by their folders or by their headers,
\* one under a folder that is no date, one that is no text file, one whose
\* index page has the date folder as its slug, two under notes/
SampleBlogFiles ==
    {"2020/1/2/p.md", "2020/1/2/p.png", "2020/13/1/q.md", "2021/3/4/index.md",
     "notes/n.md", "notes/m.md", "2019/7/8/r.md"}

\* The root configuration: the defaults, an index of 1, 2 or 3 entries a
\* page, or no pagination
SampleBlogConfigs ==
    {RootConfig}
    \cup {<< [k \in {"modules.blog.per_page"} |-> n] >> : n \in 1..3}
    \cup {<< ("modules.blog.per_page" :> 1) @@ ("modules.blog.use_pagination" :> FALSE) >>}

\* The context of f as iter_contexts yields it under the root configuration
\* config: the config.yml of its directories on top of the root, and on top
\* of these the header of the source after prepare()
PublishedContext(config, f) ==
    LET chain == local_config(PathSplit(Chars(f))[1])
        local == config \o SubSeq(chain, 2, Len(chain))
        program_name == guess_program(programs_mapping(local), Chars(f))
        ctx == NewContextIn(local, f, Chars(f), program_name)
    IN Prepared(ctx)

InitModules ==
    /\ InitBuild
    /\ nm = NoName
    /\ flt = NoFilter
    /\ pp = NoPrepare
    /\ rt = NoRoutes
    /\ \E config \in SampleBlogConfigs :
          mods = [NoModules EXCEPT !.state = "run", !.config = config]

\* Context.__init__: after_file_published.send(self) for the next context of
\* the pass: process_blog_entry, which may raise ValueError, then remember_tags
PublishContext ==
    /\ mods.state = "run"
    /\ Len(mods.published) < MaxPublished
    /\ \E f \in SampleBlogFiles \ {mods.published[i] : i \in 1..Len(mods.published)} :
          LET ctx == PublishedContext(mods.config, f)
              after == process_blog_entry_ctx(ctx)
          IN IF process_blog_entry_raises(ctx)
             THEN mods' = [mods EXCEPT !.state = "raised", !.raised = "ValueError",
                                       !.published = Append(@, f),
                                       !.contexts = (f :> ctx) @@ @]
             ELSE mods' = [mods EXCEPT
                             !.published = Append(@, f),
                             !.contexts = (f :> after) @@ @,
                             !.storage = remember_tags(after,
                                                       process_blog_entry(ctx, @))]
    /\ UNCHANGED <<buildVars, nm, flt, pp, rt>>

\* Builder.run: before_build_finished.send(self): blog.write_index_page
WriteIndexPage ==
    /\ mods.state = "run"
    /\ mods' = [mods EXCEPT !.state = "written",
                            !.pages = write_index_page(mods.config, mods.storage,
                                                       mods.contexts)]
    /\ UNCHANGED <<buildVars, nm, flt, pp, rt>>

NextModules == PublishContext \/ WriteIndexPage

SpecModules == InitModules /\ [][NextModules]_vars

(***************************************************************************)
(* Vocabulary of the properties.                                           *)
(***************************************************************************)
PerFileSignals ==
    {"after_file_prepared", "after_file_published",
     "before_file_processed", "before_file_built"}

Last(seq) == seq[Len(seq)]

\* The indices of the history at which op was done for source file f
At(op, f) ==
    {i \in 1..Len(trace) : trace[i].op = op /\ trace[i].source_filename = f}

\* The files a Context has been constructed for in the current pass
Constructed ==
    {trace[i].source_filename :
        i \in {j \in 1..Len(trace) : trace[j].op = "Context.__init__"}}

\* The context of f as it is after prepare() in the current pass
ContextOf(f) == Prepared(NewContext(f, pass))

\* The contexts of the project's files before and after prepare(), which
\* depend on the file names and headers only
FreshContexts == [f \in Files |-> NewContext(f, 0)]
PreparedContexts == [f \in Files |-> Prepared(NewContext(f, 0))]

\* The staleness policy as the specification words it, on the file system:
\* destination absent, or older than the source, or older than an existing sidecar
Stale(ctx) ==
    LET d == DstAt(full_destination_filename(ctx))
        f == ctx.source_filename
    IN \/ ~d.exists
       \/ d.mtime < srcTime[f]
       \/ meta[f].exists /\ d.mtime < meta[f].mtime

\* A file is public unless its header, or else the nearest config.yml above
\* it, says otherwise
RECURSIVE DeclaredPublic(_)
DeclaredPublic(dirpath) ==
    IF "public" \in DOMAIN ConfigYml(dirpath) THEN ConfigYml(dirpath)["public"]
    ELSE IF dirpath = <<>> THEN TRUE
    ELSE DeclaredPublic(PathSplit(dirpath)[1])
PublicFile(f) == DictGet(Header(f), "public", DeclaredPublic(PathSplit(Chars(f))[1]))

(***************************************************************************)
(* C1. Context.needs_build is true exactly when the destination does not   *)
(* exist, or its mtime is strictly earlier than the source's, or a sidecar *)
(* (source base name + .yml) exists and the destination's mtime is         *)
(* strictly earlier than the sidecar's; in every other case (equal mtimes, *)
(* no sidecar) it is false. Checked for the context a pass is working on,  *)
(* and between passes for the context of every source file, before and     *)
(* after prepare(). A pass leaves the file system as it is when it         *)
(* returns, so every state of the file system is also one between passes.  *)
(***************************************************************************)
C1_NeedsBuildIsStaleness ==
    /\ cur # NoContext => (needs_build(cur) <=> Stale(cur))
    /\ pc = "idle" =>
          \A f \in Files :
              /\ needs_build(FreshContexts[f]) <=> Stale(FreshContexts[f])
              /\ needs_build(PreparedContexts[f]) <=> Stale(PreparedContexts[f])

\* Builder.run decides to build a.md only because of its sidecar: the
\* destination exists and is newer than the source, and older than a.yml
C1_Witness ==
    /\ pc = "ctx_run"
    /\ cur.source_filename = "a.md"
    /\ meta["a.md"].exists
    /\ DstAt(full_destination_filename(cur)).exists
    /\ srcTime["a.md"] < DstAt(full_destination_filename(cur)).mtime
    /\ DstAt(full_destination_filename(cur)).mtime < meta["a.md"].mtime

(***************************************************************************)
(* The history grows by one entry per step of a pass and is never          *)
(* rewritten, so a property stated of its last entry in every state holds  *)
(* of every entry. The properties below use that form where they can.      *)
(***************************************************************************)
JustDone(ops) == trace # <<>> /\ Last(trace).op \in ops

(***************************************************************************)
(* C2 (as the specification words it). No lifecycle event fires for a file *)
(* that is up to date: whenever a per-file event has just been delivered,  *)
(* its file needs building.                                                *)
(***************************************************************************)
C2_NoEventForUpToDateFile ==
    JustDone(PerFileSignals) => Stale(cur)

(***************************************************************************)
(* C2 (amended). The pre-process and pre-build events and the program's    *)
(* run() happen only for a file that needs building; the post-prepare      *)
(* event and, for a public page, the post-publish event are delivered for  *)
(* every context the walk constructs, up to date or not, before the        *)
(* staleness check of Builder.run.                                         *)
(***************************************************************************)
C2_OnlyBuildEventsNeedStaleness ==
    /\ JustDone({"before_file_processed", "before_file_built"}) => Stale(cur)
    /\ pc = "program_run" => Stale(cur)
    /\ JustDone({"run.needs_build"}) =>
          /\ At("after_file_prepared", cur.source_filename) # {}
          /\ PublicFile(cur.source_filename) =>
                At("after_file_published", cur.source_filename) # {}

\* a.md is built and b.md is up to date in the same pass, and the
\* post-publish event of b.md has been delivered all the same
C2_Witness ==
    /\ At("program.run", "a.md") # {}
    /\ At("after_file_published", "b.md") # {}
    /\ \E i \in At("run.needs_build", "b.md") : ~trace[i].value

(***************************************************************************)
(* C3 (as the specification words it). For a file that needs building the  *)
(* pre-process event comes first, then the post-prepare event, then (for a *)
(* public page only) the post-publish event, and run() after these.        *)
(***************************************************************************)
C3_PreProcessFirst ==
    \A f \in Files :
        /\ \A i \in At("before_file_processed", f) :
              \A j \in At("after_file_prepared", f) \cup At("after_file_published", f) :
                  i < j
        /\ \A j \in At("after_file_prepared", f) :
              \A k \in At("after_file_published", f) : j < k
        /\ At("after_file_published", f) # {} => PublicFile(f)
        /\ \A r \in At("program.run", f) :
              \A j \in At("before_file_processed", f) \cup At("after_file_prepared", f)
                       \cup At("after_file_published", f) : j < r

\* The order in which Context.__init__, Context.run and Context.build do things
Rank(op) ==
    CASE op = "Context.__init__" -> 0
      [] op = "program.prepare" -> 1
      [] op = "after_file_prepared" -> 2
      [] op = "after_file_published" -> 3
      [] op = "run.needs_build" -> 4
      [] op = "before_file_processed" -> 5
      [] op = "context.needs_build" -> 6
      [] op = "before_file_built" -> 7
      [] op = "program.run" -> 8
      [] op = "print" -> 9
      [] OTHER -> 10

(***************************************************************************)
(* C3 (amended). For every file the operations of its lifecycle occur in   *)
(* this order within the pass: prepare(), the post-prepare event, then     *)
(* (only if the page is public) the post-publish event, all three while    *)
(* the Context is constructed; then, if the file needs building, the       *)
(* pre-process event, the pre-build event, and only after these run().     *)
(***************************************************************************)
C3_LifecycleOrder ==
    trace # <<>> =>
        LET e == Last(trace)
            f == e.source_filename
        IN /\ \A i \in 1..(Len(trace) - 1) :
                 trace[i].source_filename = f => Rank(trace[i].op) < Rank(e.op)
           /\ e.op = "after_file_published" => PublicFile(f)
           /\ e.op = "program.run" =>
                 /\ At("program.prepare", f) # {}
                 /\ At("after_file_prepared", f) # {}
                 /\ PublicFile(f) => At("after_file_published", f) # {}
                 /\ At("before_file_processed", f) # {}
                 /\ At("before_file_built", f) # {}

\* A public page and a page that is not public have both been built in the pass
C3_Witness ==
    /\ At("program.run", "a.md") # {}
    /\ At("program.run", "posts/hello.md") # {}
    /\ At("after_file_published", "posts/hello.md") = {}

(***************************************************************************)
(* C4 (as the specification words it). A file is fully built before any    *)
(* subscriber observes an event of it: whenever a per-file event for F has *)
(* just been delivered, F's destination has been written in this pass.     *)
(***************************************************************************)
C4_BuiltBeforeEvents ==
    JustDone(PerFileSignals) =>
        /\ At("program.run", cur.source_filename) # {}
        /\ DstAt(full_destination_filename(cur)).exists

(***************************************************************************)
(* C4 (amended). Every per-file event of F is delivered before F is built: *)
(* whenever a per-file event for F has just been delivered, the program's  *)
(* run() has not yet written F's destination in this pass, and once run()  *)
(* has written it no further event of F is delivered in the pass.          *)
(***************************************************************************)
C4_EventsBeforeBuild ==
    /\ JustDone(PerFileSignals) => At("program.run", cur.source_filename) = {}
    /\ JustDone({"before_file_built"}) => Stale(cur)
    /\ JustDone({"program.run"}) =>
          /\ ~Stale(cur)
          /\ DstAt(full_destination_filename(cur)) = [exists |-> TRUE, mtime |-> now]

\* run() has just written the destination of a file whose events were delivered
C4_Witness ==
    /\ JustDone({"program.run"})
    /\ At("before_file_built", cur.source_filename) # {}
    /\ At("after_file_prepared", cur.source_filename) # {}

(***************************************************************************)
(* C5. Per-file processing is never interleaved: when the Context of the   *)
(* next file is constructed, every event of the previous file has been     *)
(* delivered and its run() has completed; an operation on another file     *)
(* than the previous one is always the construction of a new Context (or   *)
(* the end of the build), no file is constructed twice, and every file     *)
(* constructed earlier in the pass is up to date by then.                  *)
(***************************************************************************)
C5_NoInterleaving ==
    /\ Len(trace) >= 2 =>
          LET e == Last(trace)
              prev == trace[Len(trace) - 1]
          IN /\ e.source_filename # prev.source_filename =>
                    e.op \in {"Context.__init__", "before_build_finished"}
             /\ e.op = "Context.__init__" =>
                    /\ \/ prev.op = "print"
                       \/ prev.op = "run.needs_build" /\ ~prev.value
                    /\ Cardinality(At("Context.__init__", e.source_filename)) = 1
             /\ e.op = "print" =>
                    \/ prev.op = "program.run"
                    \/ prev.op = "context.needs_build" /\ ~prev.value
    /\ pc = "prepare" =>
          \A f \in Constructed \ {cur.source_filename} : ~Stale(ContextOf(f))

\* The Context of the next file has just been constructed after a file was built
C5_Witness ==
    /\ pc = "prepare"
    /\ Len(trace) >= 2
    /\ trace[Len(trace) - 1].op = "print"
    /\ \E f \in Files \ {cur.source_filename} : At("program.run", f) # {}

(***************************************************************************)
(* C6. In every pass that completes without error the end-of-build event   *)
(* (before_build_finished) is emitted exactly once, after the last file of *)
(* the walk has been constructed and processed, and nothing happens in the *)
(* pass after it: it is the last entry of the history.                     *)
(***************************************************************************)
C6_EndOfBuildOnce ==
    LET fin == {i \in 1..Len(trace) : trace[i].op = "before_build_finished"}
    IN /\ Cardinality(fin) <= 1
       /\ pc = "returned" => fin # {}
       /\ fin # {} =>
             /\ fin = {Len(trace)}
             /\ pc = "returned"
             /\ todo = <<>>
             /\ Constructed = {order[i] : i \in 1..Len(order)}
             /\ \A f \in Constructed : ~Stale(ContextOf(f))

\* A pass that built something has completed
C6_Witness ==
    /\ pc = "returned"
    /\ stdout # <<>>
    /\ Last(trace).op = "before_build_finished"

(***************************************************************************)
(* C7. A failure while processing a file (an exception from prepare(),     *)
(* from an event subscriber or from the program's run()) aborts the pass:  *)
(* the exception is the last thing that happens in the pass, Builder.run   *)
(* is left by it, no later file is constructed, prepared or built, and the *)
(* end-of-build event is not emitted.                                      *)
(***************************************************************************)
C7_FailureAbortsPass ==
    LET raised == {i \in 1..Len(trace) : trace[i].op = "raise"}
    IN /\ pc = "raised" <=> raised # {}
       /\ raised # {} =>
             /\ raised = {Len(trace)}
             /\ \A i \in 1..Len(trace) : trace[i].op # "before_build_finished"
             /\ \A i \in 1..Len(todo) : todo[i] \notin Constructed
             /\ ~ENABLED IterContextsNext
             /\ ~ENABLED SendBeforeBuildFinished

\* The stylesheet compiler has failed while files remain to be walked
C7_Witness ==
    /\ pc = "raised"
    /\ cur.program_name = "scss"
    /\ Len(trace) >= 2
    /\ trace[Len(trace) - 1].op = "before_file_built"
    /\ todo # <<>>

(***************************************************************************)
(* C8. Module storage does not survive across passes: Builder.run empties  *)
(* it before the first Context of the pass is constructed, so during the   *)
(* pass and at the end-of-build event it holds only contexts constructed   *)
(* in the current pass, however many passes the Builder has run.           *)
(***************************************************************************)
C8_StorageOfCurrentPass ==
    /\ (pc = "iter" /\ trace = <<>>) => storage = <<>>
    /\ pc # "idle" =>
          /\ \A r \in StorageRefs :
                r.pass = pass /\ r.source_filename \in Constructed
          /\ ("tags" \in DOMAIN storage /\ "by_file" \in DOMAIN storage["tags"]) =>
                DOMAIN storage["tags"]["by_file"] \subseteq Constructed

\* The end of a second pass is reached with entries in module storage
C8_Witness ==
    /\ pc = "finish"
    /\ pass >= 2
    /\ StorageRefs # {}

(***************************************************************************)
(* C9. A pass is idempotent on an unchanged source tree: in a pass started *)
(* after a successful pass with no source or sidecar changed in between,   *)
(* needs_build is false for every context, no program run() executes and   *)
(* nothing is printed.                                                     *)
(***************************************************************************)
C9_SecondPassBuildsNothing ==
    passClean =>
        /\ stdout = <<>>
        /\ \A i \in 1..Len(trace) :
              /\ trace[i].op \notin {"before_file_processed", "before_file_built",
                                     "program.run", "print"}
              /\ trace[i].op = "run.needs_build" => ~trace[i].value
        /\ \A f \in Files : ~needs_build(ContextOf(f))
        /\ pc \in {"iter", "prepare", "after_prepare", "publish", "loop", "finish",
                   "returned", "raised"}

\* A second pass on an unchanged tree has completed
C9_Witness ==
    /\ passClean
    /\ pc = "returned"
    /\ Cardinality(Constructed) = Cardinality(Files)

(***************************************************************************)
(* C10. Destination filename derivation: for a structured-markup program   *)
(* (html, md) a source dir/name.ext maps to dir/name/index.html, except    *)
(* that a source whose base name is index maps to dir/index.html; for the  *)
(* copy program the destination equals the source path unchanged. The      *)
(* expected path is put together from the directory, base name and         *)
(* extension the source path was made of; the code takes the path apart.   *)
(* Context.__init__ puts the builder's prefix path in front of it, which   *)
(* is empty unless canonical_url has a path.                               *)
(***************************************************************************)
C10_DestinationDerivation ==
    nm.state = "done" =>
        LET dir == IF nm.dir = <<>> THEN <<>> ELSE nm.dir \o <<SLASH>>
        IN /\ (nm.program_name \in {"html", "md"} /\ nm.ext # <<>>) =>
                 nm.desired = IF nm.base = INDEX THEN dir \o INDEX_HTML
                              ELSE dir \o nm.base \o <<SLASH>> \o INDEX_HTML
           /\ nm.program_name = "copy" =>
                 nm.desired = dir \o nm.base \o nm.ext
           /\ nm.prefix_path = <<>> => nm.destination_filename = nm.desired

\* posts/hello.md and posts/index.md under the md program, static/logo.png
\* under the copy program: one of the three examples has been derived
C10_Witness ==
    /\ nm.state = "done"
    /\ nm.prefix_path = <<>>
    /\ \/ /\ nm.source_filename = Chars("posts/hello.md")
          /\ nm.program = "" /\ nm.program_name = "md"
          /\ nm.destination_filename =
                <<"p","o","s","t","s","/","h","e","l","l","o","/","i","n","d","e","x",".","h","t","m","l">>
       \/ /\ nm.source_filename = <<"p","o","s","t","s","/","i","n","d","e","x",".","m","d">>
          /\ nm.program = "" /\ nm.program_name = "md"
          /\ nm.destination_filename =
                <<"p","o","s","t","s","/","i","n","d","e","x",".","h","t","m","l">>
       \/ /\ nm.source_filename = <<"s","t","a","t","i","c","/","l","o","g","o",".","p","n","g">>
          /\ nm.program = "" /\ nm.program_name = "copy"
          /\ nm.destination_filename = nm.source_filename

(***************************************************************************)
(* C11. The stylesheet program's get_desired_filename rewrites the         *)
(* extension only: for every source path ending in .scss the destination   *)
(* is the same path with only the final extension changed to .css, every   *)
(* directory component and the base name left unchanged. The code replaces *)
(* every occurrence of scss in the path, so a directory named scss is      *)
(* renamed too.                                                            *)
(***************************************************************************)
C11_ScssRewritesExtensionOnly ==
    (/\ nm.state = "done"
     /\ nm.program_name = "scss"
     /\ nm.ext = <<DOT>> \o SCSS) =>
        nm.desired = PathSplitext(nm.source_filename)[1] \o <<DOT>> \o CSS

(***************************************************************************)
(* C12. Program dispatch: given the config-supplied pattern -> program     *)
(* mapping (or the built-in default mapping *.html -> html, *.md -> md,    *)
(* *.scss -> scss when the config supplies none) and a source filename,    *)
(* guess_program returns the program name of the first pattern, in mapping *)
(* iteration order, that matches the filename, and copy when no pattern    *)
(* matches; the builder's state is as it was before the call.              *)
(***************************************************************************)
C12_FirstMatchingProgram ==
    (nm.state = "done" /\ nm.program = "") =>
        LET mapping == IF nm.programs = <<>> THEN default_programs ELSE nm.programs
            hits == {i \in 1..Len(mapping) :
                        Fnmatch(nm.source_filename, mapping[i][1])}
            first == CHOOSE i \in hits : \A j \in hits : i <= j
        IN /\ nm.program_name = IF hits = {} THEN "copy" ELSE mapping[first][2]
           /\ nm.programs = <<>> =>
                 nm.program_name =
                    CASE nm.ext = <<".","h","t","m","l">> -> "html"
                      [] nm.ext = <<".","m","d">> -> "md"
                      [] nm.ext = <<DOT>> \o SCSS -> "scss"
                      [] OTHER -> "copy"
           /\ storage = <<>> /\ pc = "idle" /\ pass = 0 /\ trace = <<>>

\* posts/hello.md under a mapping whose three patterns all match it gets the
\* program of the first one
C12_Witness ==
    /\ nm.state = "done"
    /\ nm.program = ""
    /\ nm.source_filename = Chars("posts/hello.md")
    /\ Len(nm.programs) = 3
    /\ \A i \in 1..3 : Fnmatch(nm.source_filename, nm.programs[i][1])
    /\ nm.program_name = "html"

\* The patterns filter_files has used, and those of them that match a name,
\* a "!" pattern matching by what follows the "!"
FilterPatterns ==
    IF "ignore_files" \in DOMAIN flt.config[1] THEN flt.config[1]["ignore_files"]
    ELSE default_ignores
FilterHits(filename) ==
    {i \in 1..Len(FilterPatterns) :
        Fnmatch(filename, IF FilterPatterns[i][1] = "!" THEN Tail(FilterPatterns[i])
                          ELSE FilterPatterns[i])}
FilterResultNames == {flt.result[i] : i \in 1..Len(flt.result)}

(***************************************************************************)
(* C13 (as the specification words it). In filter_files a negated ignore   *)
(* pattern force-includes: every entry that matches some pattern written   *)
(* as !pattern in the effective ignore list is kept in the result even if  *)
(* another, non-negated pattern of the list, wherever it stands, would     *)
(* exclude it.                                                             *)
(***************************************************************************)
C13_NegationAlwaysKeeps ==
    flt.state = "done" =>
        \A k \in 1..Len(flt.files) :
            (\E i \in FilterHits(flt.files[k]) : FilterPatterns[i][1] = "!")
                => flt.files[k] \in FilterResultNames

(***************************************************************************)
(* C13 (amended). The first pattern of the list that matches an entry      *)
(* decides: the entry is kept exactly when no pattern matches it or the    *)
(* first one that does is written as !pattern. An entry that matches a     *)
(* !pattern is therefore kept when no non-negated pattern standing earlier *)
(* in the list matches it, and dropped when one does. The result keeps the *)
(* order of the entries.                                                   *)
(***************************************************************************)
C13_FirstMatchingPatternDecides ==
    flt.state = "done" =>
        LET Kept(filename) ==
                \/ FilterHits(filename) = {}
                \/ FilterPatterns[CHOOSE i \in FilterHits(filename) :
                                    \A j \in FilterHits(filename) : i <= j][1] = "!"
        IN flt.result = SelectSeq(flt.files, Kept)

\* Under the list (!keep.yml, *.yml) keep.yml is kept and a.yml dropped
C13_Witness ==
    /\ flt.state = "done"
    /\ FilterPatterns = << <<"!","k","e","e","p",".","y","m","l">>, <<"*",".","y","m","l">> >>
    /\ <<"k","e","e","p",".","y","m","l">> \in FilterResultNames
    /\ A_YML \in {flt.files[k] : k \in 1..Len(flt.files)}
    /\ A_YML \notin FilterResultNames

\* The directory a source file lies in, and for each source file the files
\* that lie in the subdirectories, at any depth, of its directory
DirOf == [f \in Files \cup OutputFiles |-> PathSplit(Chars(f))[1]]
InSubdirOf(g, dirpath) ==
    /\ DirOf[g] # dirpath
    /\ dirpath = <<>> \/ StartsWith(DirOf[g], dirpath \o <<SLASH>>)
BelowSiblings == [f \in Files |-> {g \in Files : InSubdirOf(g, DirOf[f])}]
AboveSiblings == [g \in Files |-> {f \in Files : InSubdirOf(g, DirOf[f])}]

(***************************************************************************)
(* C14. Tree-walk order: for every directory visited by iter_contexts, the *)
(* contexts of all files in its non-ignored subdirectories, at any depth,  *)
(* are yielded, and their events observed, before the context of any file  *)
(* directly in that directory; files in ignored directories yield no       *)
(* context. On the history: when something has just been done for a file,  *)
(* every file below its directory has had its context constructed and its  *)
(* post-prepare event delivered, nothing has yet been done for a file      *)
(* directly in a directory above, and no operation is ever done for a file *)
(* of the output folder, which the default patterns ignore.                *)
(***************************************************************************)
C14_SubdirectoriesFirst ==
    /\ (trace # <<>> /\ Last(trace).source_filename \in Files) =>
          LET f == Last(trace).source_filename
          IN /\ \A g \in BelowSiblings[f] :
                   /\ g \in Constructed
                   /\ At("after_file_prepared", g) # {}
             /\ \A i \in 1..Len(trace) :
                   trace[i].source_filename \notin AboveSiblings[f]
    /\ \A i \in 1..Len(order) : order[i] \in Files
    /\ trace # <<>> => Last(trace).source_filename \notin OutputFiles

\* The first context of the project folder itself is constructed in a pass
\* that finds the output folder of an earlier pass: the files of posts and of
\* posts/css have been through their events, the stylesheet through its build
C14_Witness ==
    /\ pass = 2
    /\ trace # <<>>
    /\ Last(trace).op = "Context.__init__"
    /\ DirOf[Last(trace).source_filename] = <<>>
    /\ \E d \in DOMAIN dst : dst[d].exists
    /\ At("program.run", "posts/css/main.scss") # {}
    /\ At("after_file_prepared", "posts/hello.md") # {}
    /\ Cardinality(Constructed) = 3

\* What a configuration resolves a key to, by get and by merged_get
Lookup(config, k) ==
    [get |-> IF ConfigLevels(config, k) = {} THEN <<>>
             ELSE <<ConfigGet(config, k, <<>>)>>,
     merged_get |-> IF k \in {"tags"} THEN ConfigMergedGet(config, k) ELSE <<>>]
SameLookups(c1, c2) == \A k \in SampleKeys : Lookup(c1, k) = Lookup(c2, k)

RuleOf(endpoint) ==
    LET rules == {i \in 1..Len(rt.url_map) : rt.url_map[i].endpoint = endpoint}
    IN rt.url_map[CHOOSE i \in rules : \A j \in rules : i <= j]
Registered(endpoint) ==
    \E i \in 1..Len(rt.url_map) : rt.url_map[i].endpoint = endpoint

C17_HeaderlessSourceIsBody ==
    (pp.calls >= 1 /\ ~pp.source.header_block) =>
        /\ pp.state # "raised"
        /\ pp.page.html.body = pp.source.lines

(***************************************************************************)
(* C18. prepare() is idempotent on unchanged input: calling a markup       *)
(* program's prepare() twice on the same context leaves the context in the *)
(* same observable state as calling it once (same html, title, summary,    *)
(* pub_date, destination filename, and the same result for every           *)
(* configuration lookup including merged sequence lookups such as tags),   *)
(* and alters no state shared with other contexts. In the code every call  *)
(* of process_header puts one more node carrying the header on the         *)
(* context's configuration chain, so a merged lookup yields the header's   *)
(* sequence once per call.                                                 *)
(***************************************************************************)
C18_PrepareIdempotent ==
    (pp.state = "constructed" /\ pp.calls >= 2) =>
        /\ pp.page.html = pp.first.html
        /\ pp.page.title = pp.first.title
        /\ pp.page.summary = pp.first.summary
        /\ pp.page.ctx.pub_date = pp.first.ctx.pub_date
        /\ pp.page.ctx.destination_filename = pp.first.ctx.destination_filename
        /\ SameLookups(pp.page.ctx.config, pp.first.ctx.config)
        /\ pp.local_config = pp.config_at_start
        /\ pp.sibling = SiblingContext(pp.config_at_start)

(***************************************************************************)
(* C19 (as the specification words it). A context's destination path is    *)
(* the one computed in Context.__init__ from the source path and the       *)
(* program: neither prepare() nor any later step of the pass changes it.   *)
(***************************************************************************)
C19_DestinationNeverChanges ==
    cur # NoContext =>
        cur.destination_filename = FreshContexts[cur.source_filename].destination_filename

(***************************************************************************)
(* C19 (amended). Until prepare() the destination path is the one computed *)
(* from the source path and the program; prepare() replaces it by the      *)
(* destination_filename of the source's header when the header has one;    *)
(* from then on no step of the pass changes it, so the staleness check of  *)
(* Builder.run and the program's run() refer to the same path, and run()   *)
(* writes there.                                                           *)
(***************************************************************************)
C19_DestinationFixedByPrepare ==
    cur # NoContext =>
        LET f == cur.source_filename
            computed == FreshContexts[f].destination_filename
            expected == IF cur.program_name \in {"html", "md"}
                        THEN DictGet(Header(f), "destination_filename", computed)
                        ELSE computed
        IN /\ cur.destination_filename =
                 IF At("program.prepare", f) = {} THEN computed ELSE expected
           /\ JustDone({"program.run"}) =>
                 LET written == PathJoin(PathJoin(project_folder, OUTPUT_FOLDER), expected)
                 IN /\ DstAt(written) = [exists |-> TRUE, mtime |-> now]
                    /\ full_destination_filename(cur) = written

\* b.md, whose header names b.html, has been built: the context's path is
\* b.html and not the b/index.html computed at first, and b.html is written
C19_Witness ==
    /\ JustDone({"program.run"})
    /\ cur.source_filename = "b.md"
    /\ cur.destination_filename = B_HTML
    /\ FreshContexts["b.md"].destination_filename # B_HTML
    /\ DstAt(full_destination_filename(cur)).exists
    /\ ~DstAt(full_destination_filename(FreshContexts["b.md"])).exists

\* The source files that module storage holds: those of the contexts in the
\* blog's year lists and the tags' by_tag lists, and the keys of by_file
StoredFiles ==
    {r.source_filename : r \in StorageRefs}
    \cup (IF "tags" \in DOMAIN storage /\ "by_file" \in DOMAIN storage["tags"]
          THEN DOMAIN storage["tags"]["by_file"] ELSE {})

(***************************************************************************)
(* C20. The post-publish event is emitted for a context exactly when its   *)
(* effective configuration after prepare() has public true, the header of  *)
(* the source deciding before the config.yml files of its directories and  *)
(* true being the default: once a context has been yielded to Builder.run  *)
(* it has had its post-prepare event, and its post-publish event if and    *)
(* only if it is public; a file that is not public never has a             *)
(* post-publish event and is never in the storage of the blog or tags      *)
(* module.                                                                 *)
(***************************************************************************)
C20_PublishedIffPublic ==
    \A f \in Files :
        /\ At("after_file_published", f) # {} => PublicFile(f)
        /\ At("run.needs_build", f) # {} =>
              /\ At("after_file_prepared", f) # {}
              /\ At("after_file_published", f) # {} <=> PublicFile(f)
        /\ ~PublicFile(f) => f \notin StoredFiles
        /\ (cur # NoContext /\ cur.source_filename = f
            /\ At("program.prepare", f) # {}) => (public(cur) <=> PublicFile(f))

\* In one pass a page made non-public by its header under a directory that
\* declares public true, and a file made non-public by its directory's
\* config.yml, have been yielded with a post-prepare event and no
\* post-publish event, and a public page has been published and stored
C20_Witness ==
    /\ PublicFile("a.md") /\ ~PublicFile("posts/hello.md")
    /\ ~PublicFile("posts/css/main.scss")
    /\ ConfigYml(POSTS)["public"]
    /\ \A f \in {"posts/hello.md", "posts/css/main.scss"} :
          /\ At("run.needs_build", f) # {}
          /\ At("after_file_prepared", f) # {}
          /\ At("after_file_published", f) = {}
    /\ At("after_file_published", "a.md") # {}
    /\ "a.md" \in StoredFiles

\* The parts of a path between its slashes
RECURSIVE Segments(_)
Segments(s) ==
    LET slashes == {i \in 1..Len(s) : s[i] = SLASH}
        first == CHOOSE i \in slashes : \A j \in slashes : i <= j
    IN IF slashes = {} THEN <<s>>
       ELSE <<SubSeq(s, 1, first - 1)>> \o Segments(SubSeq(s, first + 1, Len(s)))

AllDigits(s) == s # <<>> /\ \A i \in 1..Len(s) : IsDigit(s[i])

\* The slug of f is year/month/day/rest, the three of digits, rest not empty
SlugHasDate(f) ==
    LET seg == Segments(slug(Chars(f)))
    IN /\ Len(seg) >= 4
       /\ \A i \in 1..3 : AllDigits(seg[i])
       /\ seg[4] # <<>>
SlugDate(f) ==
    LET seg == Segments(slug(Chars(f)))
    IN <<ToInt(seg[1]), ToInt(seg[2]), ToInt(seg[3])>>
DateExists(d) ==
    /\ d[1] \in 1..9999 /\ d[2] \in 1..12
    /\ d[3] \in 1..(IF d[2] = 2 THEN (IF d[1] % 4 = 0 /\ (d[1] % 100 # 0 \/ d[1] % 400 = 0)
                                      THEN 29 ELSE 28)
                    ELSE IF d[2] \in {4, 6, 9, 11} THEN 30 ELSE 31)

\* The header of f gives a pub_date, and the program of f reads headers
HeaderDated(f) ==
    /\ PathSplitext(Chars(f))[2] \in {<<".","m","d">>, <<".","h","t","m","l">>}
    /\ "pub_date" \in DOMAIN Header(f)
TextFile(f) ==
    PathSplitext(Chars(f))[2] \in {<<".","r","s","t">>, <<".","h","t","m","l">>, <<".","m","d">>}

\* How many times f stands in the blog storage under year y
BlogCount(f, y) ==
    LET blog == DictGet(mods.storage, "blog", <<>>)
    IN IF y \in DOMAIN blog
       THEN Cardinality({i \in 1..Len(blog[y]) : blog[y][i].source_filename = f})
       ELSE 0
BlogYears == DOMAIN DictGet(mods.storage, "blog", <<>>)

(***************************************************************************)
(* C21. Blog entry accumulation. When the blog subscriber receives a       *)
(* published context, a pub_date set by the header is kept; otherwise the  *)
(* date is parsed from the slug against the pattern (by default            *)
(* /<int:year>/<int:month>/<int:day>/ followed by a rest), and a slug that *)
(* does not match leaves the context undated and raises nothing. The       *)
(* context stands in the blog storage under its pub_date's year exactly    *)
(* once if it has a pub_date and is a text file, and nowhere in the blog   *)
(* storage otherwise. (The subscriber raises only for a slug that matches  *)
(* the pattern with numbers that are no date, as 2020/13/1.)               *)
(***************************************************************************)
C21_BlogEntryAccumulation ==
    \A i \in 1..Len(mods.published) :
        LET f == mods.published[i]
            ctx == mods.contexts[f]
            raised == mods.state = "raised" /\ i = Len(mods.published)
        IN /\ HeaderDated(f) => ~raised /\ ctx.pub_date = <<Header(f)["pub_date"]>>
           /\ (~HeaderDated(f) /\ ~SlugHasDate(f)) => ~raised /\ ctx.pub_date = <<>>
           /\ (~HeaderDated(f) /\ SlugHasDate(f) /\ DateExists(SlugDate(f))) =>
                 ~raised /\ ctx.pub_date = SlugDate(f)
           /\ raised => ~HeaderDated(f) /\ SlugHasDate(f) /\ ~DateExists(SlugDate(f))
           /\ \A y \in BlogYears \cup {0} :
                 BlogCount(f, y) =
                    IF ctx.pub_date # <<>> /\ TextFile(f) /\ y = ctx.pub_date[1] /\ ~raised
                    THEN 1 ELSE 0

\* One pass has published a page dated by its header although its folder is
\* a date, a page dated by its folder, and an index page whose slug is no
\* date; the first two are stored under their years, the third is not
C21_Witness ==
    /\ mods.state = "run"
    /\ {mods.published[i] : i \in 1..Len(mods.published)} =
          {"2019/7/8/r.md", "2020/1/2/p.md", "2021/3/4/index.md"}
    /\ mods.contexts["2019/7/8/r.md"].pub_date = <<2021>>
    /\ mods.contexts["2020/1/2/p.md"].pub_date = <<2020, 1, 2>>
    /\ mods.contexts["2021/3/4/index.md"].pub_date = <<>>
    /\ BlogCount("2019/7/8/r.md", 2021) = 1
    /\ BlogCount("2020/1/2/p.md", 2020) = 1
    /\ BlogYears = {2020, 2021}

\* The split of a source as the specification words it: the delimiter lines
\* at the top, the header lines after them, the line that ends the header
\* (the first blank or delimiter line after the top, or the end of the file)
LeadingLimits(lines) ==
    Cardinality({j \in 1..Len(lines) : \A i \in 1..j : lines[i] = Limit})
HeaderEnd(lines) ==
    LET k == LeadingLimits(lines)
        ends == {i \in (k + 1)..Len(lines) : lines[i] \in {Blank, Limit}}
    IN IF ends = {} THEN Len(lines) + 1
       ELSE CHOOSE i \in ends : \A j \in ends : i <= j

CeilDiv(n, p) == CHOOSE c \in 0..n : c * p >= n /\ (c - 1) * p < n

RECURSIVE Concat(_)
Concat(seqs) == IF seqs = <<>> THEN <<>> ELSE Head(seqs) \o Concat(Tail(seqs))

\* The published files that are blog entries: dated text files
BlogEntryFiles ==
    {f \in DOMAIN mods.contexts :
        mods.contexts[f].pub_date # <<>> /\ TextFile(f)}

(***************************************************************************)
(* C23. Blog index pagination. For the n entries accumulated in a pass and *)
(* per_page p >= 1, write_index_page ends after writing the index pages    *)
(* 1..max(1, ceil(n/p)), in this order, when pagination is enabled, and    *)
(* page 1 alone when it is disabled; the slices that get_slice returns for *)
(* the pages 1..ceil(n/p) follow one another without gap or overlap and    *)
(* make up the sorted list of entries, in which every entry stands exactly *)
(* once, a later date before an earlier one.                               *)
(***************************************************************************)
C23_IndexPagination ==
    mods.state = "written" =>
        LET entries == get_all_entries(mods.storage, mods.contexts)
            n == Len(entries)
            p == ConfigRootGet(mods.config, "modules.blog.per_page", 10)
            enabled == ConfigRootGet(mods.config, "modules.blog.use_pagination", TRUE)
            last == IF enabled /\ CeilDiv(n, p) > 1 THEN CeilDiv(n, p) ELSE 1
            slices == [i \in 1..CeilDiv(n, p) |-> Pagination_get_slice(entries, i, p)]
        IN /\ Len(mods.pages) = last
           /\ \A i \in 1..last :
                 /\ mods.pages[i].page = i
                 /\ i <= CeilDiv(n, p) => mods.pages[i].slice = slices[i]
           /\ Concat(slices) = entries
           /\ \A i \in 1..CeilDiv(n, p) : slices[i] # <<>> /\ Len(slices[i]) <= p
           /\ {entries[i].source_filename : i \in 1..n} = BlogEntryFiles
           /\ n = Cardinality(BlogEntryFiles)
           /\ \A i \in 1..(n - 1) :
                 EntryKey(mods.contexts[entries[i].source_filename])
                    >= EntryKey(mods.contexts[entries[i + 1].source_filename])

\* Three entries at two a page: the index pages 1 and 2 have been written,
\* the first with the two latest entries, the second with the third
C23_Witness ==
    /\ mods.state = "written"
    /\ ConfigRootGet(mods.config, "modules.blog.per_page", 10) = 2
    /\ Len(get_all_entries(mods.storage, mods.contexts)) = 3
    /\ Len(mods.pages) = 2
    /\ Len(mods.pages[1].slice) = 2
    /\ Len(mods.pages[2].slice) = 1

\* A run() started in this state would build a file: a context that
\* iter_contexts yields, prepared, needs building
RunWouldBuild ==
    LET contexts == Walk(<<>>, FALSE)
    IN \E i \in 1..Len(contexts) : needs_build(PreparedContexts[contexts[i]])

(***************************************************************************)
(* C24. Builder.anything_needs_build() agrees with Builder.run(): between  *)
(* passes it is true exactly when a run() started on the same file system  *)
(* would build at least one file, and it is false right after a pass that  *)
(* succeeded on a tree nobody has changed since, also when the header of a *)
(* file overrides destination_filename. The code constructs the contexts   *)
(* of anything_needs_build without prepare(), so the override is not       *)
(* applied and the destination looked at is not the one run() writes.      *)
(***************************************************************************)
C24_AnythingNeedsBuildAgreesWithRun ==
    pc = "idle" =>
        /\ anything_needs_build <=> RunWouldBuild
        /\ unchanged => ~anything_needs_build

\* The program and the destination that Context.__init__ gives another
\* source file of the same project (same configuration, same prefix path)
ProgramIn(source_filename) ==
    IF nm.program # "" THEN nm.program
    ELSE guess_program(programs_mapping(<< [k \in {"programs"} |-> nm.programs] >>),
                       source_filename)
DestinationIn(source_filename) ==
    destination_filename_for(nm.prefix_path, ProgramIn(source_filename), source_filename)

\* A file name that the default ignore patterns keep
NotIgnored(filename) == FilterKeeps(filename, default_ignores)

(***************************************************************************)
(* C25. Destinations are unique within a pass: no two distinct source      *)
(* files that the walk does not ignore are given the same destination path *)
(* by their programs' get_desired_filename, so that no run() overwrites    *)
(* what was written for another source file. The code derives each         *)
(* destination from its own source alone and compares none: hello.md and   *)
(* hello.html of one directory both get hello/index.html.                  *)
(***************************************************************************)
C25_DestinationsUnique ==
    (nm.state = "done" /\ NotIgnored(nm.base \o nm.ext)) =>
        \A d \in SampleDirs, b \in SampleBases, e \in SampleExts :
            LET other == PathJoin(d, b \o e)
            IN (other # nm.source_filename /\ NotIgnored(b \o e)) =>
                  DestinationIn(other) # nm.destination_filename

\* The two indexes of the tags module, and how often f stands in by_tag[t]
ByFile == DictGet(DictGet(mods.storage, "tags", <<>>), "by_file", <<>>)
ByTag == DictGet(DictGet(mods.storage, "tags", <<>>), "by_tag", <<>>)
TagCount(f, t) ==
    IF t \in DOMAIN ByTag
    THEN Cardinality({i \in 1..Len(ByTag[t]) : ByTag[t][i].source_filename = f})
    ELSE 0
TagsOfFile(f) ==
    IF f \in DOMAIN ByFile THEN {ByFile[f][i] : i \in 1..Len(ByFile[f])} ELSE {}
SampleTags == {"python", "web", "blog"}

(***************************************************************************)
(* C26. The two tag indexes stay consistent after any sequence of          *)
(* post-publish events of a pass: a context stands in by_tag[t] if and     *)
(* only if t is in by_file of its source file, and it stands there at most *)
(* once, so that the count reported for a tag is the number of distinct    *)
(* published files that carry the tag, also when a tag is declared both in *)
(* a directory's configuration and in the header of the file. The code     *)
(* appends the context once for every element of merged_get('tags'), in    *)
(* which such a tag stands twice.                                          *)
(***************************************************************************)
C26_TagIndexesConsistent ==
    \A t \in SampleTags \cup DOMAIN ByTag :
        /\ \A f \in SampleBlogFiles :
              /\ TagCount(f, t) > 0 <=> t \in TagsOfFile(f)
              /\ TagCount(f, t) <= 1
        /\ t \in DOMAIN ByTag =>
              get_tag_summary(mods.storage)[t] =
                 Cardinality({f \in SampleBlogFiles : t \in TagsOfFile(f)})

====
